---- MODULE Spec2Model ----
(***************************************************************************)
(* The POSIX shell interpreter of sh/src/interpreter/mod.rs as a system of *)
(* processes: the shell, the children it forks for pipeline stages and for *)
(* external commands, the pipes between them and each process's file       *)
(* descriptor table.  A string is a sequence of one-character strings, so  *)
(* that `contains('/')`, `split(':')` and PathBuf::push are computed.      *)
(***************************************************************************)
EXTENDS Integers, Sequences, FiniteSets, TLC

\* ------------------------------------------------------------------ bounds
\* Most (pipeline, op) elements in a generated conjunction.
MaxElems == 3
\* Most stages in a generated pipeline.
MaxStages == 3
\* Size of the process table (fork fails when it is full): room for the
\* shell copies a conjunction of failing execs leaves, and for the stages
\* of a pipeline with an external command each.
MaxProcs == IF 2 ^ MaxElems > 2 * MaxStages + 2 THEN 2 ^ MaxElems
            ELSE 2 * MaxStages + 2
\* Highest file descriptor number a process may hold.
MaxFd == 6
\* The longest text of a one-part word handed to split_fields, and the most
\* parts of a word of short parts.
MaxLen == 4
MaxParts == 2
\* The most files of a filesystem, and the most runs of expand_word on one
\* field.
MaxFiles == 2
MaxRuns == 2
\* The deepest nesting of loops, function calls and dot scripts, and the
\* most iterations a loop is entered with.
MaxNest == 3
MaxIter == 2
\* The most lines main reads from standard input.
MaxLines == 3
\* The most calls of append and end_field made on one word.
MaxCalls == 3
\* The most commands the shell runs and the most signals it is sent.
MaxCommands == 2
MaxSignals == 2
\* The most words of the program handed to eval.
MaxWords == 2

Fds == 0..MaxFd

STDIN_FILENO == 0
STDOUT_FILENO == 1

\* ------------------------------------------------------------- sequences
Last(s) == s[Len(s)]

Contains(s, c) == \E i \in 1..Len(s) : s[i] = c

RECURSIVE SplitFrom(_, _, _, _)
\* str::split(sep): the pieces between separators, empty pieces included.
SplitFrom(s, sep, i, cur) ==
  IF i > Len(s) THEN <<cur>>
  ELSE IF s[i] = sep THEN <<cur>> \o SplitFrom(s, sep, i + 1, <<>>)
  ELSE SplitFrom(s, sep, i + 1, Append(cur, s[i]))

Split(s, sep) == SplitFrom(s, sep, 1, <<>>)

\* --------------------------------------------------------- the filesystem
\* Regular files: /b/t exits 0, /b/f exits 1, /b/e (echo) exits 0, /b/k is
\* killed by a signal, /b/d is a data file without execute permission.
PathT == <<"/", "b", "/", "t">>
PathF == <<"/", "b", "/", "f">>
PathE == <<"/", "b", "/", "e">>
PathK == <<"/", "b", "/", "k">>
PathD == <<"/", "b", "/", "d">>

Files == {PathT, PathF, PathE, PathK, PathD}
Executables == {PathT, PathF, PathE, PathK}

\* How a program run from `path` ends: the argument of its exit, or the
\* signal that kills it.
Behaviour(path) ==
  IF path = PathF THEN [kind |-> "exit", code |-> 1]
  ELSE IF path = PathK THEN [kind |-> "signal", code |-> 9]
  ELSE [kind |-> "exit", code |-> 0]

\* PathBuf::push of a relative component.
\* The paths std::fs::File::create and OpenOptions::open succeed on: a
\* name in the current directory or an existing file; /q does not exist.
CanOpen(path) == path \in Files \/ ~Contains(path, "/")

PathPush(base, component) ==
  IF base = <<>> THEN component
  ELSE IF Last(base) = "/" THEN base \o component
  ELSE base \o <<"/">> \o component

is_file(path) == path \in Files

None == [some |-> FALSE, value |-> <<>>]
Some(v) == [some |-> TRUE, value |-> v]

RECURSIVE find_in_dirs(_, _, _)
find_in_dirs(command, dirs, i) ==
  IF i > Len(dirs) THEN None
  ELSE IF is_file(PathPush(dirs[i], command))
       THEN Some(PathPush(dirs[i], command))
       ELSE find_in_dirs(command, dirs, i + 1)

find_in_path(command, env_path) == find_in_dirs(command, Split(env_path, ":"), 1)

\* ------------------------------------------------------------ wait status
\* The status word waitpid stores: exit code in bits 8..15, or the signal
\* number in the low bits.
WaitStatus(term) ==
  IF term.kind = "signal" THEN term.code
  ELSE (term.code % 256) * 256

WEXITSTATUS(status) == (status \div 256) % 256

\* ------------------------------------------------------------ environment
Variable_new(value) == [value |-> value, export |-> FALSE]
Variable_new_exported(value) == [value |-> value, export |-> TRUE]

\* Default::default(): no variable at all.
DefaultEnvironment == << >>
\* initialize_from_system() in a process whose environment is PATH=/b.
SystemEnvironment == [n \in {"PATH"} |-> Variable_new_exported(<<"/", "b">>)]

Insert(map, key, value) == [k \in (DOMAIN map) \cup {key} |->
                              IF k = key THEN value ELSE map[k]]

\* ---------------------------------------------------------------- the AST
Word(chars) == chars
SimpleCommand(assignments, redirections, words) ==
  [assignments |-> assignments, redirections |-> redirections, words |-> words]

Cmd(words) == SimpleCommand(<<>>, <<>>, words)

CmdTrue == Cmd(<< <<"t">> >>)
CmdFalse == Cmd(<< <<"f">> >>)
CmdNoSuch == Cmd(<< <<"n">> >>)
CmdMissing == Cmd(<< <<"/", "x">> >>)
CmdNoExec == Cmd(<< PathD >>)
CmdAbsTrue == Cmd(<< PathT >>)
CmdKilled == Cmd(<< <<"k">> >>)
CmdAssign == SimpleCommand(<< [name |-> "VAR", value |-> <<"1">>] >>, <<>>, <<>>)
CmdEchoNo == Cmd(<< <<"e">>, <<"n", "o">> >>)
CmdEchoYes == Cmd(<< <<"e">>, <<"y", "e", "s">> >>)

\* Redirection { file_descriptor, kind: IORedirection { kind, file } }
NoFd == [some |-> FALSE, value |-> 0]
SomeFd(n) == [some |-> TRUE, value |-> n]
Redirection(file_descriptor, kind, file) ==
  [file_descriptor |-> file_descriptor, kind |-> kind, file |-> file]
Assignment(name, value) == [name |-> name, value |-> value]

\* `VAR=2 t`, `VAR=2 /x`
CmdAssignRun ==
  SimpleCommand(<< Assignment("VAR", <<"2">>) >>, <<>>, << <<"t">> >>)
CmdAssignMissing ==
  SimpleCommand(<< Assignment("VAR", <<"2">>) >>, <<>>, << <<"/", "x">> >>)
\* `VAR=1 VAR=3 >a`: no command word
CmdAssignRedir ==
  SimpleCommand(<< Assignment("VAR", <<"1">>), Assignment("VAR", <<"3">>) >>,
                << Redirection(NoFd, "RedirectOutput", <<"a">>) >>, <<>>)
\* `t >a >>b 2>c`, `t 2>c >a`, `t <a <b`, `t >/q/a`, `n >a`
CmdRedirRun ==
  SimpleCommand(<<>>,
                << Redirection(NoFd, "RedirectOutput", <<"a">>),
                   Redirection(NoFd, "RedirectOuputAppend", <<"b">>),
                   Redirection(SomeFd(2), "RedirectOutputClobber", <<"c">>) >>,
                << <<"t">> >>)
CmdRedirTwo ==
  SimpleCommand(<<>>,
                << Redirection(SomeFd(2), "RedirectOutput", <<"c">>),
                   Redirection(NoFd, "RedirectOutput", <<"a">>) >>,
                << <<"t">> >>)
CmdRedirIn ==
  SimpleCommand(<<>>,
                << Redirection(NoFd, "RedirectInput", <<"a">>),
                   Redirection(NoFd, "RedirectInput", <<"b">>) >>,
                << <<"t">> >>)
CmdRedirBad ==
  SimpleCommand(<<>>,
                << Redirection(NoFd, "RedirectOutput", <<"/", "q", "/", "a">>) >>,
                << <<"t">> >>)
CmdRedirNoSuch ==
  SimpleCommand(<<>>, << Redirection(NoFd, "RedirectOutput", <<"a">>) >>,
                << <<"n">> >>)

Pipeline(commands, negate_status) ==
  [commands |-> commands, negate_status |-> negate_status]
Single(c) == Pipeline(<<c>>, FALSE)
Element(pipeline, op) == [pipeline |-> pipeline, op |-> op]
Conjunction(elements) == [elements |-> elements, is_async |-> FALSE]
\* A conjunction followed by `&`.
AsyncConjunction(elements) == [elements |-> elements, is_async |-> TRUE]

\* `false && echo no || echo yes`
ConjFalseAndNoOrYes ==
  Conjunction(<< Element(Single(CmdFalse), "And"),
                 Element(Single(CmdEchoNo), "Or"),
                 Element(Single(CmdEchoYes), "None") >>)

TailConj == Conjunction(<< Element(Single(CmdAssign), "None") >>)

\* The commands conjunctions and pipelines are generated from.
ConjCommands == {CmdTrue, CmdFalse, CmdNoSuch, CmdMissing}
StageCommands == {CmdTrue, CmdNoSuch, CmdMissing}
OtherCommands == {CmdNoExec, CmdAbsTrue, CmdKilled, CmdAssign}
\* Commands with assignments and redirections, run one after the other.
FrameCommands ==
  {CmdAssign, CmdAssignRun, CmdAssignMissing, CmdAssignRedir, CmdRedirRun,
   CmdRedirTwo, CmdRedirIn, CmdRedirBad, CmdRedirNoSuch}

\* `false | true`, `true | false` and `true | true | kill`, plain and negated.
PipeScenarios ==
  {Pipeline(cs, neg) : cs \in {<<CmdFalse, CmdTrue>>, <<CmdTrue, CmdFalse>>,
                               <<CmdTrue, CmdTrue, CmdKilled>>},
                       neg \in BOOLEAN}

\* Operators of a conjunction of n elements: && or || between elements,
\* LogicalOp::None on the last one.
OpsOf(n) == {ops \in [1..n -> {"And", "Or", "None"}] :
               \A i \in 1..n : (ops[i] = "None") <=> (i = n)}

ConjFamily ==
  UNION {{Conjunction([i \in 1..n |-> Element(Single(cs[i]), ops[i])]) :
            cs \in [1..n -> ConjCommands], ops \in OpsOf(n)} : n \in 1..MaxElems}

PipeFamily ==
  UNION {{Conjunction(<< Element(Pipeline(cs, neg), "None") >>) :
            cs \in [1..n -> StageCommands], neg \in BOOLEAN} : n \in 1..MaxStages}

\* `c1; c2`
FramePrograms ==
  {<< Conjunction(<< Element(Single(c1), "None") >>),
      Conjunction(<< Element(Single(c2), "None") >>) >> :
     c1 \in FrameCommands, c2 \in FrameCommands}

\* `PATH=/b t`, `PATH=/b`
CmdPathRun ==
  SimpleCommand(<< Assignment("PATH", <<"/", "b">>) >>, <<>>, << <<"t">> >>)
CmdPathAssign ==
  SimpleCommand(<< Assignment("PATH", <<"/", "b">>) >>, <<>>, <<>>)

\* `PATH=/b t`, `PATH=/b; t`
ExportPrograms ==
  {<< Conjunction(<< Element(Single(CmdPathRun), "None") >>) >>,
   << Conjunction(<< Element(Single(CmdPathAssign), "None") >>),
      Conjunction(<< Element(Single(CmdTrue), "None") >>) >>}

\* `t & VAR=1`, `k & VAR=1`
AsyncPrograms ==
  {<< AsyncConjunction(<< Element(Single(c), "None") >>), TailConj >> :
     c \in {CmdTrue, CmdKilled}}

Programs ==
  {<<c>> : c \in ConjFamily \cup {ConjFalseAndNoOrYes}}
  \cup AsyncPrograms
  \cup ExportPrograms
  \cup FramePrograms
  \cup {<<c, TailConj>> : c \in PipeFamily}
  \cup {<< Conjunction(<< Element(pl, "None") >>) >> : pl \in PipeScenarios}
  \cup {<< Conjunction(<< Element(Pipeline(<<c>>, neg), "None") >>) >> :
          c \in OtherCommands, neg \in BOOLEAN}

\* split_fields has not returned yet.
NotSplit == [returned |-> FALSE, fields |-> <<>>]

\* ControlFlowState
ControlFlowNone == [tag |-> "None", n |-> 0]
ControlFlowBreak(n) == [tag |-> "Break", n |-> n]
ControlFlowContinue(n) == [tag |-> "Continue", n |-> n]
ControlFlowReturn == [tag |-> "Return", n |-> 0]

\* The Shell at the start of a script: no loop, function or dot script is
\* being executed and the control-flow state is None.
InitialShell ==
  [loop_depth |-> 0, function_call_depth |-> 0, dot_script_depth |-> 0,
   control_flow_state |-> ControlFlowNone]

\* No builtin has just been called.
NoCall ==
  [name |-> "", args |-> <<>>, ok |-> FALSE, status |-> 0, message |-> <<>>,
   shell |-> InitialShell, after |-> InitialShell, frames |-> <<>>]

\* list_files has not returned yet.
NotListed == [returned |-> FALSE, files |-> <<>>]

\* A FilenamePattern: whether it starts at / and its components, each a
\* text in which * and ? are wildcards.
FilenamePattern(absolute, components) ==
  [absolute |-> absolute, components |-> components]

\* main has not been entered.
NotStarted ==
  [execution_mode |-> "", pc |-> "none", lines |-> 0, buffer |-> 0,
   parsed |-> "none", stderr |-> <<>>, last_pipeline_exit_status |-> 0,
   term |-> [kind |-> "none", code |-> 0, at |-> 0]]

\* ------------------------------------------------------------------ state
VARIABLES
  program,  \* Program.commands, flattened to its conjunctions in order
  procs,    \* the process table: pid -> process; a pid is the path of
            \* fork numbers that leads from the shell, <<1>>, to the process
  pipes,    \* the pipes created so far, each named by its creator and place
  ran,      \* which process called interpret_command at which place
  expanded_word,  \* the ExpandedWord handed to split_fields
  ifs,            \* its ifs argument: None or Some(text)
  result,         \* what split_fields returned, once it has
  filesystem,         \* the files of the TestFileSystem, each a path from /
  pattern,            \* the FilenamePattern of a field
  current_directory,  \* the directory relative patterns start from
  listed,             \* what list_files returned, once it has
  expanded,           \* what each run of expand_word emitted for the field
  shell,    \* the Shell of the builtins: its depths and control_flow_state
  frames,   \* the loops, function calls and dot scripts being executed,
            \* the innermost last
  flow_pc,  \* "run": the next command of the innermost body is due;
            \* "unwind": a body has been left with a control-flow state set
  called,   \* the call of break, continue or return just made
  session,  \* main: its execution mode, the lines read and held in its
            \* buffer, what it wrote to standard error and how it ended
  appended,   \* the calls of append and end_field made on expanded_word
  normalized, \* what normalize returned for expanded_word, once it has
  global_shell, \* GLOBAL_SHELL as the handlers of main.rs see it: its trap
                \* actions, where its interpreter stands and what ran
  eval_call     \* a call of Eval::exec: its shell, its opened_files argument
                \* and its args at the call, and both tables at the return

wvars == <<expanded_word, ifs, result>>
gvars == <<filesystem, pattern, current_directory, listed, expanded>>
cvars == <<shell, frames, flow_pc, called>>
mvars == <<session>>
xvars == <<appended, normalized, global_shell, eval_call>>

\* No call of append has been made and normalize has not returned.
NotNormalized == [returned |-> FALSE, parts |-> <<>>]
\* GLOBAL_SHELL is None.
NoGlobalShell ==
  [trap_actions |-> << >>, pc |-> "none", commands |-> 0, signals |-> 0,
   events |-> <<>>]
\* Eval::exec has not been called.
NoEval ==
  [pc |-> "none", args |-> <<>>, shell |-> [opened_files |-> << >>],
   opened_files |-> << >>, ok |-> FALSE,
   before |-> [shell |-> [opened_files |-> << >>], opened_files |-> << >>]]
ExtraIdle ==
  /\ appended = <<>>
  /\ normalized = NotNormalized
  /\ global_shell = NoGlobalShell
  /\ eval_call = NoEval
vars == <<program, procs, pipes, ran, expanded_word, ifs, result,
          filesystem, pattern, current_directory, listed, expanded,
          shell, frames, flow_pc, called, session,
          appended, normalized, global_shell, eval_call>>

\* --------------------------------------------------- descriptor tables
Closed == [kind |-> "closed", pipe |-> <<>>, path |-> <<>>]
Tty == [kind |-> "tty", pipe |-> <<>>, path |-> <<>>]
PipeEnd(end, id) == [kind |-> end, pipe |-> id, path |-> <<>>]
FileDesc(path) == [kind |-> "file", pipe |-> <<>>, path |-> path]
\* A std::fs::File: its descriptor carries O_CLOEXEC.
OpenedFile(path) == [kind |-> "file_cloexec", pipe |-> <<>>, path |-> path]

AllClosed == [fd \in Fds |-> Closed]
\* Descriptors 0, 1 and 2 are the terminal when the shell starts.
InitialFds == [fd \in Fds |-> IF fd <= 2 THEN Tty ELSE Closed]
\* The descriptors of a shell that was started with its standard input
\* closed (sh ... <&-): the shell inherits whatever its parent left open.
InitialFdsNoStdin == [InitialFds EXCEPT ![STDIN_FILENO] = Closed]

FreeFds(fds) == {fd \in Fds : fds[fd].kind = "closed"}
Min(S) == CHOOSE x \in S : \A y \in S : x <= y

close(fds, fd) == IF fd \in Fds THEN [fds EXCEPT ![fd] = Closed] ELSE fds

\* dup2 fails on a closed descriptor, does nothing when old = new, and
\* else makes `new` a copy of `old` without the close-on-exec flag.
dup2(fds, old, new) ==
  IF old \notin Fds \/ new \notin Fds THEN fds
  ELSE IF fds[old].kind = "closed" \/ old = new THEN fds
  ELSE [fds EXCEPT ![new] = IF fds[old].kind = "file_cloexec"
                            THEN FileDesc(fds[old].path) ELSE fds[old]]

\* execve closes the descriptors that carry the close-on-exec flag.
CloseOnExec(fds) ==
  [fd \in Fds |-> IF fds[fd].kind = "file_cloexec" THEN Closed ELSE fds[fd]]

\* -------------------------------------------------------------- processes
NoTerm == [kind |-> "none", code |-> 0]
NoDone == [ci |-> 0, hist |-> <<>>, ret |-> 0]

\* What interpret_simple_command found when it was called.
NoBefore == [environment |-> << >>, opened_files |-> << >>]

NoProc ==
  [state |-> "none", term |-> NoTerm, parent |-> <<>>, role |-> "none",
   nforks |-> 0,
   pc |-> "none", image |-> <<>>, envp |-> {},
   environment |-> << >>, opened_files |-> << >>,
   most_recent_pipeline_status |-> 0, last_command_substitution_status |-> 0,
   most_recent_background_command_pid |-> 0,
   initial_environment |-> << >>,
   ci |-> 0, ei |-> 0, si |-> 0, status |-> 0,
   current_stdin |-> 0, pipe |-> <<0, 0>>, child |-> <<>>, in_child |-> FALSE,
   cmd_environment |-> << >>, cmd_opened_files |-> << >>,
   exec_command |-> <<>>, exec_args |-> <<>>,
   fds |-> AllClosed,
   exec_failed |-> FALSE, cmd_status |-> <<>>, hist |-> <<>>, done |-> NoDone,
   before |-> NoBefore, frames |-> <<>>]

\* The shell after construction, about to interpret the first conjunction.
Shell(environment, fds) ==
  [NoProc EXCEPT !.state = "running", !.role = "shell", !.pc = "conj",
                 !.environment = environment,
                 !.initial_environment = environment, !.ci = 1, !.ei = 1,
                 !.fds = fds]

\* The environments and descriptor tables the shell is started with. The
\* interpreter looks at descriptor numbers in interpret_pipeline only, so
\* the start without standard input is tried on the programs that consist
\* of one pipeline of two or more stages.
HasPipes(prog) ==
  /\ Len(prog) = 1
  /\ Len(prog[1].elements) = 1
  /\ Len(prog[1].elements[1].pipeline.commands) >= 2

Starts(prog) ==
  {<<DefaultEnvironment, InitialFds>>, <<SystemEnvironment, InitialFds>>}
    \cup (IF HasPipes(prog) THEN {<<SystemEnvironment, InitialFdsNoStdin>>}
                            ELSE {})

ShellPid == <<1>>

Init ==
  /\ program \in Programs
  /\ \E start \in Starts(program) :
       procs = [p \in {ShellPid} |-> Shell(start[1], start[2])]
  /\ pipes = {}
  /\ ran = {}
  /\ expanded_word = <<>>
  /\ ifs = None
  /\ result = NotSplit
  /\ filesystem = {}
  /\ pattern = FilenamePattern(FALSE, <<>>)
  /\ current_directory = <<>>
  /\ listed = NotListed
  /\ expanded = <<>>
  /\ shell = InitialShell
  /\ frames = <<>>
  /\ flow_pc = "run"
  /\ called = NoCall
  /\ session = NotStarted
  /\ ExtraIdle

\* ------------------------------------------------ places in the program
ConjAt(ci) == program[ci]
ElemAt(ci, ei) == program[ci].elements[ei]
PipelineAt(ci, ei) == ElemAt(ci, ei).pipeline
CommandAt(ci, ei, si) == PipelineAt(ci, ei).commands[si]
NStages(r) == Len(PipelineAt(r.ci, r.ei).commands)

Pids == DOMAIN procs
NoPid == <<>>

\* The pid fork gives the next child of p, NoPid when the process table is
\* full and fork fails.
NewPid(p) ==
  IF Cardinality(Pids) >= MaxProcs THEN NoPid
  ELSE Append(p, procs[p].nforks + 1)

\* The process table after p, now `parent`, has forked q as `child`.
WithChild(p, parent, q, child) ==
  [x \in Pids \cup {q} |->
     IF x = p THEN [parent EXCEPT !.nforks = parent.nforks + 1]
     ELSE IF x = q THEN child
     ELSE procs[x]]

\* --------------------------------------------------- process termination
\* std::process::exit(code), or a return from main: the process becomes a
\* zombie until its parent waits for it; all its descriptors are closed.
Exited(r, code) ==
  [r EXCEPT !.state = "zombie", !.pc = "dead", !.fds = AllClosed,
            !.term = [kind |-> "exit", code |-> code]]

\* panic!, todo! and a failed unwrap end the process with exit code 101.
Panicked(r) ==
  [r EXCEPT !.state = "zombie", !.pc = "dead", !.fds = AllClosed,
            !.term = [kind |-> "panic", code |-> 101]]

\* A killed external program.
Killed(r, sig) ==
  [r EXCEPT !.state = "zombie", !.pc = "dead", !.fds = AllClosed,
            !.term = [kind |-> "signal", code |-> sig]]

\* ------------------------------------------------- conjunctions, pipelines
\* Mutant: `!status` on an integer is the bitwise complement.
NegateStatus_Bitwise(negate_status, pipeline_exit_status) ==
  IF negate_status
  THEN 0 - pipeline_exit_status - 1
  ELSE pipeline_exit_status

\* interpret_pipeline's last statement.
NegateStatus(negate_status, pipeline_exit_status) ==
  IF negate_status
  THEN (IF pipeline_exit_status = 0 THEN 1 ELSE 0)
  ELSE pipeline_exit_status

\* Mutant: the `break` of the Or arm is missing.
ShortCircuit_OnlyAnd(status, op) == status # 0 /\ op = "And"

\* The two `break`s of interpret_conjunction.
ShortCircuit(status, op) ==
  (status # 0 /\ op = "And") \/ (status = 0 /\ op = "Or")

\* interpret_conjunction returns `status`; interpret_complete_command drops
\* it and goes to the next conjunction, interpret to the next command.
ConjunctionReturn(r, status) ==
  [r EXCEPT !.done = [ci |-> r.ci, hist |-> r.hist, ret |-> status],
            !.hist = <<>>, !.status = 0, !.ci = r.ci + 1, !.ei = 1, !.si = 0,
            !.pc = IF r.ci + 1 > Len(program) THEN "returned" ELSE "conj"]

\* interpret_pipeline has computed pipeline_exit_status: it returns the
\* possibly negated status to the loop of interpret_conjunction.
AfterPipeline(r, pipeline_exit_status) ==
  LET el == ElemAt(r.ci, r.ei)
      st == NegateStatus(el.pipeline.negate_status, pipeline_exit_status)
      r1 == [r EXCEPT !.status = st,
                      !.hist = Append(r.hist, [ei |-> r.ei, status |-> st,
                                               raw |-> pipeline_exit_status])]
  IN IF ShortCircuit(st, el.op) \/ r.ei = Len(ConjAt(r.ci).elements)
     THEN ConjunctionReturn(r1, st)
     ELSE [r1 EXCEPT !.ei = r.ei + 1, !.si = 0, !.pc = "conj"]

\* Mutant: the stage child does not exit and returns into the caller.
AfterCommand_NoExit(r, return_status) == AfterPipeline(r, return_status)

\* interpret_command has returned return_status: a stage child closes its
\* pipe descriptors and exits with it, the shell itself has its
\* pipeline_exit_status.
AfterCommand(r, return_status) ==
  IF r.in_child
  THEN Exited(r, return_status)
  ELSE AfterPipeline(r, return_status)

\* The return of interpret_command, with the status it returned noted,
\* and the interpreter's variables and files at the call and at the return.
CommandReturns(r, return_status) ==
  AfterCommand([r EXCEPT !.cmd_status = <<return_status>>,
                         !.frames = Append(r.frames,
                                           [ci |-> r.ci, ei |-> r.ei, si |-> r.si,
                                            before |-> r.before,
                                            environment |-> r.environment,
                                            opened_files |-> r.opened_files])],
               return_status)

\* Mutant: a single command is forked like the last stage of a pipeline.
PipelineStart_AlwaysFork(r) ==
  IF NStages(r) = 1
  THEN [r EXCEPT !.si = 1, !.current_stdin = STDIN_FILENO, !.pc = "fork_last"]
  ELSE [r EXCEPT !.si = 1, !.current_stdin = STDIN_FILENO, !.pc = "pipe"]

\* Mutant: the loop forks its first stage without making a pipe.
PipelineStart_NoPipe(r) ==
  IF NStages(r) = 1
  THEN [r EXCEPT !.si = 1, !.pc = "command"]
  ELSE [r EXCEPT !.si = 1, !.current_stdin = STDIN_FILENO, !.pc = "fork_stage"]

\* The head of interpret_pipeline: one command runs in this process, more
\* commands start the loop that makes a pipe and forks for each stage.
PipelineStart(r) ==
  IF NStages(r) = 1
  THEN [r EXCEPT !.si = 1, !.pc = "command"]
  ELSE [r EXCEPT !.si = 1, !.current_stdin = STDIN_FILENO, !.pc = "pipe"]

\* ------------------------------------------------------- simple commands
\* The words of the generated programs are literal text, which expansion
\* leaves as it is: one field per word.
expand_word_to_string(word) == word
expand_word(word) == <<word>>

RECURSIVE ExpandWords(_, _)
ExpandWords(words, i) ==
  IF i > Len(words) THEN <<>>
  ELSE expand_word(words[i]) \o ExpandWords(words, i + 1)

RECURSIVE perform_assignments_from(_, _, _)
perform_assignments_from(environment, assignments, i) ==
  IF i > Len(assignments) THEN environment
  ELSE perform_assignments_from(
         Insert(environment, assignments[i].name,
                Variable_new(expand_word_to_string(assignments[i].value))),
         assignments, i + 1)

perform_assignments(environment, assignments) ==
  perform_assignments_from(environment, assignments, 1)

OutputKinds == {"RedirectOutput", "RedirectOutputClobber", "RedirectOuputAppend"}

\* An Rc<File> of an opened_files table: the path it was opened on and the
\* descriptor it holds in the process.
File(path, fd) == [path |-> path, fd |-> fd]

\* Interpreter::perform_redirections on an interpreter with the table
\* opened_files in a process with the descriptors fds. Each output
\* redirection opens its file on the lowest free descriptor and inserts it
\* under its target; the file it replaces is dropped, which closes it. A
\* failed open panics in unwrap. The other kinds do nothing.
Range(f) == {f[x] : x \in DOMAIN f}

RECURSIVE perform_redirections_from(_, _, _, _, _)
perform_redirections_from(opened_files, fds, redirections, i, shared) ==
  IF i > Len(redirections)
  THEN [ok |-> TRUE, opened_files |-> opened_files, fds |-> fds]
  ELSE LET redir == redirections[i]
           path == expand_word_to_string(redir.file)
           source_fd == IF redir.file_descriptor.some
                        THEN redir.file_descriptor.value ELSE STDOUT_FILENO
       IN IF redir.kind \notin OutputKinds
          THEN perform_redirections_from(opened_files, fds, redirections,
                                         i + 1, shared)
          ELSE IF ~CanOpen(path) \/ FreeFds(fds) = {}
          THEN [ok |-> FALSE, opened_files |-> opened_files, fds |-> fds]
          ELSE LET fd == Min(FreeFds(fds))
                   fds1 == [fds EXCEPT ![fd] = OpenedFile(path)]
                   fds2 == IF /\ source_fd \in DOMAIN opened_files
                              /\ opened_files[source_fd] \notin shared
                           THEN close(fds1, opened_files[source_fd].fd)
                           ELSE fds1
               IN perform_redirections_from(
                    Insert(opened_files, source_fd, File(path, fd)),
                    fds2, redirections, i + 1, shared)

\* The interpreter that performs the redirections is a clone: the files of
\* the table it starts with are shared with the interpreter it was cloned
\* from and stay open when the clone lets go of them.
perform_redirections(opened_files, fds, redirections) ==
  perform_redirections_from(opened_files, fds, redirections, 1,
                            Range(opened_files))

\* Where the PATH search of a command word without '/' ends: the unwrap of
\* an unset PATH panics, else find_in_path decides.
PathLookup(environment, word) ==
  IF "PATH" \notin DOMAIN environment
  THEN [kind |-> "panic", path |-> <<>>]
  ELSE LET found == find_in_path(word, environment["PATH"].value)
       IN IF found.some THEN [kind |-> "exec", path |-> found.value]
          ELSE [kind |-> "not_found", path |-> <<>>]

\* Mutant: the assignments of the command environment are kept.
DropCommandEnvironment_KeepAssignments(r) ==
  [r EXCEPT !.environment = r.cmd_environment,
            !.cmd_environment = << >>, !.cmd_opened_files = << >>,
            !.exec_command = <<>>, !.exec_args = <<>>]

\* The command environment is dropped when interpret_simple_command
\* returns: the files only it holds are closed.
DropCommandEnvironment(r) ==
  LET own == Range(r.cmd_opened_files) \ Range(r.opened_files)
  IN [r EXCEPT !.cmd_environment = << >>, !.cmd_opened_files = << >>,
               !.exec_command = <<>>, !.exec_args = <<>>,
               !.fds = [fd \in Fds |->
                          IF \E f \in own : f.fd = fd
                          THEN Closed ELSE r.fds[fd]]]

\* Mutant: the redirections are made in the interpreter itself.
EmptyCommand_RedirectSelf(r, cmd) ==
  LET r1 == [r EXCEPT !.environment =
                        perform_assignments(r.environment, cmd.assignments)]
      red == perform_redirections(r1.opened_files, r1.fds, cmd.redirections)
  IN IF ~red.ok
     THEN [kind |-> "panic", status |-> 0, r |-> r1]
     ELSE [kind |-> "return", status |-> r1.last_command_substitution_status,
           r |-> [r1 EXCEPT !.opened_files = red.opened_files,
                            !.fds = red.fds]]

\* interpret_simple_command without a command word: the assignments are
\* made in the interpreter itself, the redirections in a clone that is
\* dropped at once, and the status of the last command substitution is
\* returned.
EmptyCommand(r, cmd) ==
  LET r1 == [r EXCEPT !.environment =
                        perform_assignments(r.environment, cmd.assignments)]
      subshell == perform_redirections(r1.opened_files, r1.fds, cmd.redirections)
  IN IF ~subshell.ok
     THEN [kind |-> "panic", status |-> 0, r |-> r1]
     ELSE [kind |-> "return", status |-> r1.last_command_substitution_status,
           r |-> r1]

\* command_environment: a clone of the interpreter in which the
\* assignments and the redirections of the command are made.
CommandEnvironment(r, cmd) ==
  LET red == perform_redirections(r.opened_files, r.fds, cmd.redirections)
  IN [ok |-> red.ok,
      r |-> [r EXCEPT !.cmd_environment =
                        perform_assignments(r.environment, cmd.assignments),
                      !.cmd_opened_files = red.opened_files,
                      !.fds = red.fds]]

\* interpret_simple_command up to its return or its call of exec.
\* kind "return": it returns `status`; "exec": it calls
\* command_environment.exec(command, args); "panic": it panics.
SimpleCommandOutcome(r, cmd) ==
  LET expanded_words == ExpandWords(cmd.words, 1)
      r0 == [r EXCEPT !.last_command_substitution_status = 0]
      command_environment == CommandEnvironment(r0, cmd)
  IN IF expanded_words = <<>> THEN EmptyCommand(r0, cmd)
     ELSE IF ~command_environment.ok
     THEN [kind |-> "panic", status |-> 0, r |-> r0]
     ELSE IF Contains(expanded_words[1], "/")
     THEN [kind |-> "exec", status |-> 0,
           r |-> [command_environment.r EXCEPT
                    !.exec_command = expanded_words[1],
                    !.exec_args = Tail(expanded_words)]]
     ELSE LET look == PathLookup(r0.environment, expanded_words[1])
          IN IF look.kind = "panic"
             THEN [kind |-> "panic", status |-> 0, r |-> r0]
             ELSE IF look.kind = "exec"
             THEN [kind |-> "exec", status |-> 0,
                   r |-> [command_environment.r EXCEPT
                            !.exec_command = look.path,
                            !.exec_args = Tail(expanded_words)]]
             ELSE [kind |-> "return", status |-> 127,
                   r |-> DropCommandEnvironment(command_environment.r)]

\* ---------------------------------------------------------------- actions
Running(p, pc) == procs[p].state = "running" /\ procs[p].pc = pc

\* fork(): the child is a copy of the caller with its own pid.
Forked(r, p, role, pc) ==
  [r EXCEPT !.parent = p, !.role = role, !.pc = pc, !.child = NoPid,
            !.nforks = 0, !.cmd_status = <<>>, !.exec_failed = FALSE]

\* interpret_conjunction: the loop takes the next (pipeline, op) element and
\* calls interpret_pipeline on it.
InterpretConjunction(p) ==
  /\ Running(p, "conj")
  /\ procs' = [procs EXCEPT ![p] = PipelineStart(procs[p])]
  /\ UNCHANGED <<xvars, mvars, wvars, gvars, cvars, program, pipes, ran>>

\* interpret_command -> interpret_simple_command, up to its return or to
\* the fork inside Interpreter::exec.
InterpretSimpleCommand(p) ==
  /\ Running(p, "command")
  /\ LET r == [procs[p] EXCEPT
                  !.before = [environment |-> procs[p].environment,
                              opened_files |-> procs[p].opened_files]]
         out == SimpleCommandOutcome(r, CommandAt(r.ci, r.ei, r.si))
         q == NewPid(p)
     IN /\ ran' = ran \cup {[pid |-> p, ci |-> r.ci, ei |-> r.ei, si |-> r.si]}
        /\ procs' =
             IF out.kind = "panic" THEN [procs EXCEPT ![p] = Panicked(out.r)]
             ELSE IF out.kind = "return"
             THEN [procs EXCEPT ![p] = CommandReturns(out.r, out.status)]
             ELSE IF q = NoPid THEN [procs EXCEPT ![p] = Panicked(out.r)]
             ELSE WithChild(p, [out.r EXCEPT !.pc = "exec_wait", !.child = q],
                            q, Forked(out.r, p, "exec", "exec_child"))
  /\ UNCHANGED <<xvars, mvars, wvars, gvars, cvars, program, pipes>>

\* The orders a HashMap of the keys S can be iterated in.
Orders(S) ==
  {o \in [1..Cardinality(S) -> S] : \A i, j \in DOMAIN o : o[i] = o[j] => i = j}

RECURSIVE DupOpenedFiles(_, _, _, _)
\* The child's loop over opened_files: dup2 of each file's descriptor onto
\* the number it is registered under, in the order the map yields them.
DupOpenedFiles(fds, opened_files, order, i) ==
  IF i > Len(order) THEN fds
  ELSE DupOpenedFiles(dup2(fds, opened_files[order[i]].fd, order[i]),
                      opened_files, order, i + 1)

\* The characters of a variable name.
Chars(name) ==
  CASE name = "PATH" -> <<"P", "A", "T", "H">>
    [] name = "VAR" -> <<"V", "A", "R">>
    [] name = "IFS" -> <<"I", "F", "S">>

\* format!("{name}={}", value.value)
EnvString(name, value) == Chars(name) \o <<"=">> \o value

\* Mutant: the export flag is not looked at.
ExportedEnv_All(environment) ==
  {EnvString(name, environment[name].value) : name \in DOMAIN environment}

\* The strings name=value of the exported variables.
ExportedEnv(environment) ==
  {EnvString(name, environment[name].value) :
     name \in {n \in DOMAIN environment : environment[n].export}}

\* What execve returns when it returns.
ExecveFailed == -1

\* The child branch of Interpreter::exec: execve replaces the image, or
\* fails and returns -1, which exec returns to interpret_simple_command.
ExecReturn(r) ==
  CommandReturns(DropCommandEnvironment([r EXCEPT !.exec_failed = TRUE]),
                 ExecveFailed)

ExecChild(q) ==
  /\ Running(q, "exec_child")
  /\ \E order \in Orders(DOMAIN procs[q].cmd_opened_files) :
       LET r == procs[q]
           fds == DupOpenedFiles(r.fds, r.cmd_opened_files, order, 1)
           r1 == [r EXCEPT !.fds = fds]
       IN procs' =
            [procs EXCEPT ![q] =
               IF r.exec_command \in Executables
               THEN [r1 EXCEPT !.pc = "external", !.image = r.exec_command,
                               !.envp = ExportedEnv(r.cmd_environment),
                               !.fds = CloseOnExec(fds)]
               ELSE ExecReturn(r1)]
  /\ UNCHANGED <<xvars, mvars, wvars, gvars, cvars, program, pipes, ran>>

\* The external program runs to its end.
ExternalTerminates(q) ==
  /\ Running(q, "external")
  /\ LET r == procs[q]
         b == Behaviour(r.image)
     IN procs' = [procs EXCEPT ![q] =
                    IF b.kind = "signal" THEN Killed(r, b.code)
                    ELSE Exited(r, b.code)]
  /\ UNCHANGED <<xvars, mvars, wvars, gvars, cvars, program, pipes, ran>>

\* What the parent branch of Interpreter::exec makes of the wait status.
ExecStatus(wait_status) == WEXITSTATUS(wait_status)

\* The parent branch of Interpreter::exec: waitpid(pid) blocks until the
\* child has terminated, and reaps it.
ExecWait(p) ==
  /\ Running(p, "exec_wait")
  /\ LET r == procs[p]
         q == r.child
     IN /\ procs[q].state = "zombie"
        /\ procs' =
             [procs EXCEPT
                ![q].state = "reaped",
                ![p] = CommandReturns(DropCommandEnvironment(r),
                                      ExecStatus(WaitStatus(procs[q].term)))]
  /\ UNCHANGED <<xvars, mvars, wvars, gvars, cvars, program, pipes, ran>>

\* A process whose interpreter has run the whole program leaves with the
\* most recent pipeline status.
ShellExit(p) ==
  /\ Running(p, "returned")
  /\ procs' = [procs EXCEPT
                 ![p] = Exited(procs[p], procs[p].most_recent_pipeline_status)]
  /\ UNCHANGED <<xvars, mvars, wvars, gvars, cvars, program, pipes, ran>>

\* ------------------------------------------------------- pipeline actions
PipeId(p, r) == <<p, r.ci, r.ei, r.si>>

\* libc::pipe: the two lowest free descriptors become the read and the
\* write end of a new pipe; without two free descriptors it fails, and the
\* todo! panics.
Pipe(p) ==
  /\ Running(p, "pipe")
  /\ LET r == procs[p]
         free == FreeFds(r.fds)
     IN IF Cardinality(free) < 2
        THEN /\ procs' = [procs EXCEPT ![p] = Panicked(r)]
             /\ UNCHANGED pipes
        ELSE LET rd == Min(free)
                 wr == Min(free \ {rd})
             IN /\ procs' =
                     [procs EXCEPT ![p] =
                        [r EXCEPT !.pipe = <<rd, wr>>, !.pc = "fork_stage",
                                  !.fds = [r.fds EXCEPT
                                             ![rd] = PipeEnd("r", PipeId(p, r)),
                                             ![wr] = PipeEnd("w", PipeId(p, r))]]]
                /\ pipes' = pipes \cup {PipeId(p, r)}
  /\ UNCHANGED <<xvars, mvars, wvars, gvars, cvars, program, ran>>

\* The fork of a stage that is not the last one.
ForkStage(p) ==
  /\ Running(p, "fork_stage")
  /\ LET r == procs[p]
         q == NewPid(p)
     IN procs' =
          IF q = NoPid THEN [procs EXCEPT ![p] = Panicked(r)]
          ELSE WithChild(p, [r EXCEPT !.pc = "parent_close"],
                         q, [Forked(r, p, "stage", "stage_child") EXCEPT
                               !.in_child = TRUE])
  /\ UNCHANGED <<xvars, mvars, wvars, gvars, cvars, program, pipes, ran>>

\* The descriptors of a stage child before it runs its command.
StageChildFds(r) ==
  dup2(dup2(close(r.fds, r.pipe[1]), r.current_stdin, STDIN_FILENO),
       r.pipe[2], STDOUT_FILENO)

\* The child of a stage that is not the last one, up to interpret_command.
StageChild(q) ==
  /\ Running(q, "stage_child")
  /\ procs' = [procs EXCEPT ![q] = [procs[q] EXCEPT !.fds = StageChildFds(procs[q]),
                                                     !.pc = "command"]]
  /\ UNCHANGED <<xvars, mvars, wvars, gvars, cvars, program, pipes, ran>>

\* The descriptors of the parent after the fork of a stage.
ParentCloseFds(r) ==
  close(IF r.current_stdin # 0 THEN close(r.fds, r.current_stdin) ELSE r.fds,
        r.pipe[2])

\* The parent after the fork of a stage: it closes the previous read end
\* and the write end, keeps the read end for the next stage and loops.
ParentClose(p) ==
  /\ Running(p, "parent_close")
  /\ LET r == procs[p]
     IN procs' =
          [procs EXCEPT ![p] =
             [r EXCEPT !.fds = ParentCloseFds(r),
                       !.current_stdin = r.pipe[1],
                       !.si = r.si + 1,
                       !.pc = IF r.si + 1 <= NStages(r) - 1
                              THEN "pipe" ELSE "fork_last"]]
  /\ UNCHANGED <<xvars, mvars, wvars, gvars, cvars, program, pipes, ran>>

\* The fork of the last stage.
ForkLast(p) ==
  /\ Running(p, "fork_last")
  /\ LET r == procs[p]
         q == NewPid(p)
     IN procs' =
          IF q = NoPid THEN [procs EXCEPT ![p] = Panicked(r)]
          ELSE WithChild(p, [r EXCEPT !.pc = "parent_close_last", !.child = q],
                         q, [Forked(r, p, "stage", "last_child") EXCEPT
                               !.in_child = TRUE])
  /\ UNCHANGED <<xvars, mvars, wvars, gvars, cvars, program, pipes, ran>>

\* The child of the last stage, up to interpret_command.
LastChild(q) ==
  /\ Running(q, "last_child")
  /\ procs' = [procs EXCEPT ![q] =
                 [procs[q] EXCEPT
                    !.fds = dup2(procs[q].fds, procs[q].current_stdin, STDIN_FILENO),
                    !.pc = "command"]]
  /\ UNCHANGED <<xvars, mvars, wvars, gvars, cvars, program, pipes, ran>>

\* The descriptors of the parent when it starts to wait.
ParentCloseLastFds(r) == close(r.fds, r.current_stdin)

\* The parent after the last fork closes the last read end.
ParentCloseLast(p) ==
  /\ Running(p, "parent_close_last")
  /\ procs' = [procs EXCEPT ![p] =
                 [procs[p] EXCEPT !.fds = ParentCloseLastFds(procs[p]),
                                  !.pc = "wait_last"]]
  /\ UNCHANGED <<xvars, mvars, wvars, gvars, cvars, program, pipes, ran>>

\* The children the parent of a multi-stage pipeline waits for, given the
\* pid of the last stage.
WaitedChildren(p, last_command_pid) == {last_command_pid}

\* Mutant: the wait status is used as it is, without WEXITSTATUS.
PipelineStatus_Raw(wait_status) == wait_status

\* What interpret_pipeline makes of the last stage's wait status.
PipelineStatus(wait_status) == WEXITSTATUS(wait_status)

\* waitpid(last_command_pid) blocks until the last stage has terminated.
WaitLast(p) ==
  /\ Running(p, "wait_last")
  /\ LET r == procs[p]
         q == r.child
         waited == WaitedChildren(p, q)
     IN /\ \A c \in waited : procs[c].state = "zombie"
        /\ procs' =
             [c \in Pids |->
                IF c = p
                THEN AfterPipeline(r, PipelineStatus(WaitStatus(procs[q].term)))
                ELSE IF c \in waited
                THEN [procs[c] EXCEPT !.state = "reaped"]
                ELSE procs[c]]
  /\ UNCHANGED <<xvars, mvars, wvars, gvars, cvars, program, pipes, ran>>

Next ==
  \/ \E p \in Pids : InterpretConjunction(p)
  \/ \E p \in Pids : InterpretSimpleCommand(p)
  \/ \E p \in Pids : ExecChild(p)
  \/ \E p \in Pids : ExternalTerminates(p)
  \/ \E p \in Pids : ExecWait(p)
  \/ \E p \in Pids : ShellExit(p)
  \/ \E p \in Pids : Pipe(p)
  \/ \E p \in Pids : ForkStage(p)
  \/ \E p \in Pids : StageChild(p)
  \/ \E p \in Pids : ParentClose(p)
  \/ \E p \in Pids : ForkLast(p)
  \/ \E p \in Pids : LastChild(p)
  \/ \E p \in Pids : ParentCloseLast(p)
  \/ \E p \in Pids : WaitLast(p)

Spec == Init /\ [][Next]_vars

\* ------------------------------------------------------- word expansion
\* ExpandedWordPart: the tag and the text of a part; FieldEnd has no text.
QuotedLiteral(lit) == [tag |-> "QuotedLiteral", lit |-> lit]
UnquotedLiteral(lit) == [tag |-> "UnquotedLiteral", lit |-> lit]
GeneratedUnquotedLiteral(lit) == [tag |-> "GeneratedUnquotedLiteral", lit |-> lit]
FieldEnd == [tag |-> "FieldEnd", lit |-> <<>>]

\* ExpandedWord { parts }
ExpandedWord(parts) == parts

RECURSIVE to_string_from(_, _)
to_string_from(parts, i) ==
  IF i > Len(parts) THEN <<>> ELSE parts[i].lit \o to_string_from(parts, i + 1)

\* ExpandedWord::to_string: the texts of the parts in order.
to_string(word) == to_string_from(word, 1)

RECURSIVE normalize_from(_, _, _)
normalize_from(parts, i, merged_parts) ==
  IF i > Len(parts) THEN merged_parts
  ELSE LET part == parts[i]
           dest == merged_parts[Len(merged_parts)]
       IN normalize_from(
            parts, i + 1,
            IF part.tag # "FieldEnd" /\ part.tag = dest.tag
            THEN [merged_parts EXCEPT ![Len(merged_parts)].lit = dest.lit \o part.lit]
            ELSE Append(merged_parts, part))

\* ExpandedWord::normalize: joins adjacent parts that carry the same tag.
normalize(word) ==
  IF word = <<>> THEN <<>> ELSE normalize_from(word, 2, <<word[1]>>)

is_ifs_whitespace(c) == c = " " \/ c = "\t" \/ c = "\n"

\* The position of the first character from `from` on that is not
\* whitespace, or 0 when the text ends first: the inner loop of the
\* whitespace arm.
RECURSIVE SkipWhitespace(_, _)
SkipWhitespace(lit, from) ==
  IF from > Len(lit) THEN 0
  ELSE IF ~is_ifs_whitespace(lit[from]) THEN from
  ELSE SkipWhitespace(lit, from + 1)

\* The loop 'outer with a non-whitespace separator at the end of the text
\* ending the field before it and opening an empty one after it.
RECURSIVE SplitLiteral_EmptyFieldAtEnd(_, _, _, _)
SplitLiteral_EmptyFieldAtEnd(lit, pos, ifs_chars, st) ==
  LET next_char == lit[pos]
      flushed ==
        IF st.accumulator # <<>>
        THEN [st EXCEPT
                !.result = Append(st.result,
                                  normalize(Append(st.parts_for_last_word,
                                                   UnquotedLiteral(st.accumulator)))),
                !.parts_for_last_word = <<>>,
                !.accumulator = <<>>]
        ELSE st
  IN IF Contains(ifs_chars, next_char)
     THEN IF is_ifs_whitespace(next_char)
          THEN LET to == SkipWhitespace(lit, pos + 1)
               IN IF to = 0 THEN st
                  ELSE SplitLiteral_EmptyFieldAtEnd(lit, to, ifs_chars, flushed)
          ELSE IF pos = Len(lit)
               THEN [flushed EXCEPT !.result = Append(@, <<UnquotedLiteral(<<>>)>>)]
               ELSE SplitLiteral_EmptyFieldAtEnd(lit, pos + 1, ifs_chars, flushed)
     ELSE LET st1 == [st EXCEPT !.accumulator = Append(st.accumulator, next_char)]
          IN IF pos = Len(lit) THEN st1
             ELSE SplitLiteral_EmptyFieldAtEnd(lit, pos + 1, ifs_chars, st1)

\* The loop 'outer of split_fields over the characters of a generated
\* literal; st holds result, parts_for_last_word and accumulator, pos is the
\* position of next_char.
RECURSIVE SplitLiteral(_, _, _, _)
SplitLiteral(lit, pos, ifs_chars, st) ==
  LET next_char == lit[pos]
      flushed ==
        IF st.accumulator # <<>>
        THEN [st EXCEPT
                !.result = Append(st.result,
                                  normalize(Append(st.parts_for_last_word,
                                                   UnquotedLiteral(st.accumulator)))),
                !.parts_for_last_word = <<>>,
                !.accumulator = <<>>]
        ELSE st
  IN IF Contains(ifs_chars, next_char)
     THEN IF is_ifs_whitespace(next_char)
          THEN LET to == SkipWhitespace(lit, pos + 1)
               IN IF to = 0 THEN st
                  ELSE SplitLiteral(lit, to, ifs_chars, flushed)
          ELSE IF pos = Len(lit) THEN st
               ELSE SplitLiteral(lit, pos + 1, ifs_chars, flushed)
     ELSE LET st1 == [st EXCEPT !.accumulator = Append(st.accumulator, next_char)]
          IN IF pos = Len(lit) THEN st1
             ELSE SplitLiteral(lit, pos + 1, ifs_chars, st1)

\* The loop over the parts with an unquoted literal split like generated
\* text.
RECURSIVE SplitParts_SplitLiterals(_, _, _, _)
SplitParts_SplitLiterals(parts, i, ifs_chars, st) ==
  IF i > Len(parts) THEN st
  ELSE LET part == parts[i]
       IN SplitParts_SplitLiterals(
            parts, i + 1, ifs_chars,
            IF part.tag = "QuotedLiteral"
            THEN [st EXCEPT !.parts_for_last_word = Append(@, part)]
            ELSE IF part.tag = "FieldEnd"
            THEN [st EXCEPT !.result = Append(@, normalize(st.parts_for_last_word)),
                            !.parts_for_last_word = <<>>]
            ELSE IF part.lit = <<>> THEN st
            ELSE LET after == SplitLiteral(part.lit, 1, ifs_chars, st)
                 IN IF after.accumulator # <<>>
                    THEN [after EXCEPT
                            !.parts_for_last_word =
                               Append(@, UnquotedLiteral(after.accumulator)),
                            !.accumulator = <<>>]
                    ELSE after)

\* The loop of split_fields over the parts of the normalized word.
RECURSIVE SplitParts(_, _, _, _)
SplitParts(parts, i, ifs_chars, st) ==
  IF i > Len(parts) THEN st
  ELSE LET part == parts[i]
       IN SplitParts(
            parts, i + 1, ifs_chars,
            IF part.tag \in {"UnquotedLiteral", "QuotedLiteral"}
            THEN [st EXCEPT !.parts_for_last_word = Append(@, part)]
            ELSE IF part.tag = "FieldEnd"
            THEN [st EXCEPT !.result = Append(@, normalize(st.parts_for_last_word)),
                            !.parts_for_last_word = <<>>]
            ELSE IF part.lit = <<>> THEN st
            ELSE LET after == SplitLiteral(part.lit, 1, ifs_chars, st)
                 IN IF after.accumulator # <<>>
                    THEN [after EXCEPT
                            !.parts_for_last_word =
                               Append(@, UnquotedLiteral(after.accumulator)),
                            !.accumulator = <<>>]
                    ELSE after)

DefaultIfs == <<" ", "\t", "\n">>

\* split_fields without the return for an empty ifs.
split_fields_SplitOnEmptyIfs(word, ifs_option) ==
  IF word = <<>> THEN <<>>
  ELSE LET ifs_chars == IF ifs_option.some THEN ifs_option.value ELSE DefaultIfs
           st == SplitParts(normalize(word), 1, ifs_chars,
                            [result |-> <<>>, parts_for_last_word |-> <<>>,
                             accumulator |-> <<>>])
       IN IF st.parts_for_last_word # <<>>
          THEN Append(st.result, normalize(st.parts_for_last_word))
          ELSE st.result

\* split_fields(expanded_word, ifs)
split_fields(word, ifs_option) ==
  IF word = <<>> THEN <<>>
  ELSE LET ifs_chars == IF ifs_option.some THEN ifs_option.value ELSE DefaultIfs
       IN IF ifs_chars = <<>> THEN <<word>>
          ELSE LET st == SplitParts(normalize(word), 1, ifs_chars,
                                    [result |-> <<>>, parts_for_last_word |-> <<>>,
                                     accumulator |-> <<>>])
               IN IF st.parts_for_last_word # <<>>
                  THEN Append(st.result, normalize(st.parts_for_last_word))
                  ELSE st.result

\* The words and the values of ifs split_fields is tried on: every word of
\* one part with a text of up to MaxLen characters or one of the example
\* texts, every word of up to MaxParts parts with texts of at most one
\* character, and the word without parts.
Alphabet == {"a", ":", " ", "\t"}
Texts == UNION {[1..n -> Alphabet] : n \in 0..MaxLen}
ShortTexts == {<<>>} \cup {<<c>> : c \in {"a", ":", " "}}
Tags == {"QuotedLiteral", "UnquotedLiteral", "GeneratedUnquotedLiteral"}
ShortParts == {[tag |-> t, lit |-> l] : t \in Tags, l \in ShortTexts} \cup {FieldEnd}

\* The texts of the unit tests split_fields_on_single_non_whitespace_char and
\* field_splitting_does_not_affect_non_generated_literals, and a text with
\* two adjacent separators.
ExampleTexts ==
  {<<"a", ":", "b", ":", "c", ":">>, <<"a", ":", "b", ":", "c">>,
   <<"a", ":", ":", "b">>}

\* Words with a FieldEnd between two parts, as end_field makes them.
ExampleWords ==
  {<<QuotedLiteral(<<"a">>), FieldEnd, QuotedLiteral(<<"b">>)>>,
   <<GeneratedUnquotedLiteral(<<"a", ":", "b">>), FieldEnd, UnquotedLiteral(<<"c">>)>>}

\* Words of a literal next to generated text that has a separator at that
\* edge or in its middle, and the word of the unit test
\* field_splitting_does_not_affect_non_generated_literals.
EdgeWords ==
  {<<l, GeneratedUnquotedLiteral(g)>> :
     l \in {UnquotedLiteral(<<"a">>), QuotedLiteral(<<"a">>)},
     g \in {<<":", "b">>, <<" ", "b">>, <<"b", ":", "b">>}}
  \cup {<<GeneratedUnquotedLiteral(g), l>> :
          l \in {UnquotedLiteral(<<"a">>), QuotedLiteral(<<"a">>)},
          g \in {<<"b", ":">>, <<"b", " ">>, <<"b", ":", "b">>}}
  \cup {<<UnquotedLiteral(<<"a", ":">>),
          GeneratedUnquotedLiteral(<<"b", ":", "c">>),
          UnquotedLiteral(<<":", "d">>)>>}

Words ==
  {<<>>}
  \cup ExampleWords
  \cup EdgeWords
  \cup {<<[tag |-> t, lit |-> l]>> : t \in Tags, l \in Texts \cup ExampleTexts}
  \cup UNION {[1..n -> ShortParts] : n \in 1..MaxParts}

IfsValues ==
  {None, Some(<<>>), Some(<<":">>), Some(<<" ">>), Some(<<"\t">>),
   Some(<<" ", ":">>), Some(DefaultIfs)}

SplitInit ==
  /\ expanded_word \in Words
  /\ ifs \in IfsValues
  /\ result = NotSplit
  /\ program = <<>>
  /\ procs = << >>
  /\ pipes = {}
  /\ ran = {}
  /\ filesystem = {}
  /\ pattern = FilenamePattern(FALSE, <<>>)
  /\ current_directory = <<>>
  /\ listed = NotListed
  /\ expanded = <<>>
  /\ shell = InitialShell
  /\ frames = <<>>
  /\ flow_pc = "run"
  /\ called = NoCall
  /\ session = NotStarted
  /\ ExtraIdle

\* The call of split_fields.
SplitFields ==
  /\ ~result.returned
  /\ result' = [returned |-> TRUE, fields |-> split_fields(expanded_word, ifs)]
  /\ UNCHANGED <<xvars, mvars, gvars, cvars, program, procs, pipes, ran, expanded_word, ifs>>

SplitNext == SplitFields

SplitSpec == SplitInit /\ [][SplitNext]_vars

\* --------------------------------------------------- pathname expansion
\* The byte of a character, as far as the order of sort needs it.
CharCode(c) ==
  CASE c = "*" -> 42 [] c = "/" -> 47 [] c = "?" -> 63
    [] c = "a" -> 97 [] c = "b" -> 98

\* Ord for strings: byte by byte, a proper prefix first.
RECURSIVE LexLess(_, _)
LexLess(x, y) ==
  IF y = <<>> THEN FALSE
  ELSE IF x = <<>> THEN TRUE
  ELSE IF x[1] # y[1] THEN CharCode(x[1]) < CharCode(y[1])
  ELSE LexLess(Tail(x), Tail(y))

\* The place of v in the sorted sequence: behind every element that is not
\* greater than it.
RECURSIVE InsertSorted(_, _)
InsertSorted(sorted, v) ==
  IF sorted = <<>> THEN <<v>>
  ELSE IF LexLess(v, sorted[1]) THEN <<v>> \o sorted
  ELSE <<sorted[1]>> \o InsertSorted(Tail(sorted), v)

\* Vec::sort
RECURSIVE sort(_)
sort(v) == IF v = <<>> THEN <<>> ELSE InsertSorted(sort(Tail(v)), v[1])

\* A component of a pattern against a file name: ? is any one character and
\* * any run of characters, every other character is itself.
RECURSIVE MatchGlob(_, _)
MatchGlob(glob, name) ==
  IF glob = <<>> THEN name = <<>>
  ELSE IF glob[1] = "*"
  THEN MatchGlob(Tail(glob), name) \/ (name # <<>> /\ MatchGlob(glob, Tail(name)))
  ELSE /\ name # <<>>
       /\ glob[1] = "?" \/ glob[1] = name[1]
       /\ MatchGlob(Tail(glob), Tail(name))

component_count(pat) == Len(pat.components)
is_absolute(pat) == pat.absolute
\* matches_all(component_index, name), with components counted from 1
matches_all(pat, component_index, name) ==
  MatchGlob(pat.components[component_index], name)

\* PathBuf::into_os_string: the names joined by /, after a / when the path
\* starts at the root.
RECURSIVE JoinNames(_)
JoinNames(names) ==
  IF names = <<>> THEN <<>>
  ELSE IF Len(names) = 1 THEN names[1]
  ELSE names[1] \o <<"/">> \o JoinNames(Tail(names))

PathBuf(rooted, names) == [rooted |-> rooted, names |-> names]
into_os_string(path) ==
  (IF path.rooted THEN <<"/">> ELSE <<>>) \o JoinNames(path.names)

\* The pattern as text.
PatternText(pat) == into_os_string(PathBuf(pat.absolute, pat.components))

\* TestFileSystem::get_dir: the path names a directory, one that holds a
\* file somewhere below it.
get_dir(fs, path) ==
  \E f \in fs : Len(path) < Len(f) /\ SubSeq(f, 1, Len(path)) = path

DirEntry(kind, name) == [kind |-> kind, name |-> name]

\* The orders a directory can be read in.
DirOrders == {"ascending", "descending"}

\* TestFileSystem::read_dir: the entries of the directory, in the order the
\* map hands them out.
read_dir(fs, path, order) ==
  IF ~get_dir(fs, path) THEN <<>>
  ELSE LET names == {f[Len(path) + 1] : f \in {g \in fs : Len(path) < Len(g)
                                                /\ SubSeq(g, 1, Len(path)) = path}}
           entry(n) == IF Append(path, n) \in fs THEN DirEntry("File", n)
                       ELSE DirEntry("Dir", n)
       IN CHOOSE items \in [1..Cardinality(names) -> {entry(n) : n \in names}] :
            \A i, j \in 1..Cardinality(names) :
              i < j => IF order = "ascending"
                       THEN LexLess(items[i].name, items[j].name)
                       ELSE LexLess(items[j].name, items[i].name)

\* list_files_rec, and its loop over the entries from the k-th on.
RECURSIVE list_files_rec(_, _, _, _, _, _, _)
RECURSIVE ListEntries(_, _, _, _, _, _, _, _, _)
ListEntries(fs, order, pat, component_index, directory, prefix, entries, k, found) ==
  IF k > Len(entries) THEN found
  ELSE LET entry == entries[k]
           add_to_result == component_index = component_count(pat)
           matches == matches_all(pat, component_index, entry.name)
           path == PathBuf(prefix.rooted, Append(prefix.names, entry.name))
       IN ListEntries(
            fs, order, pat, component_index, directory, prefix, entries, k + 1,
            IF entry.kind = "File"
            THEN IF add_to_result /\ matches
                 THEN Append(found, into_os_string(path)) ELSE found
            ELSE IF ~matches THEN found
            ELSE IF add_to_result THEN Append(found, into_os_string(path))
            ELSE list_files_rec(fs, order, pat, component_index + 1,
                                Append(directory, entry.name), path, found))

list_files_rec(fs, order, pat, component_index, directory, prefix, found) ==
  ListEntries(fs, order, pat, component_index, directory, prefix,
              read_dir(fs, directory, order), 1, found)

\* list_files before its result is sorted.
list_files_unsorted(fs, order, pat, directory) ==
  IF component_count(pat) = 0 THEN <<>>
  ELSE IF is_absolute(pat)
  THEN list_files_rec(fs, order, pat, 1, <<>>, PathBuf(TRUE, <<>>), <<>>)
  ELSE list_files_rec(fs, order, pat, 1, directory, PathBuf(FALSE, <<>>), <<>>)

\* list_files with the sort left out.
list_files_NoSort(fs, order, pat, directory) ==
  list_files_unsorted(fs, order, pat, directory)

\* list_files(filesystem, pattern, current_directory)
list_files(fs, order, pat, directory) ==
  sort(list_files_unsorted(fs, order, pat, directory))

\* The loop body of expand_word for one field with nothing emitted when the
\* pattern matches no file.
expand_field_DropUnmatched(fs, order, pat, directory) ==
  list_files(fs, order, pat, directory)

\* The loop body of expand_word for one field: the files the pattern
\* matches, or the pattern itself when there are none.
expand_field(fs, order, pat, directory) ==
  LET files == list_files(fs, order, pat, directory)
  IN IF files = <<>> THEN <<PatternText(pat)>> ELSE files

\* The filesystems, patterns and directories tried: up to MaxFiles files
\* one or two directories deep, patterns of up to two components.
FileNames == {<<"a">>, <<"a", "b">>, <<"b">>}
FilePaths == {<<n>> : n \in FileNames} \cup {<<n, m>> : n \in FileNames, m \in FileNames}
FileSystems ==
  {fs \in SUBSET FilePaths :
     /\ Cardinality(fs) <= MaxFiles
     /\ \A f \in fs : ~get_dir(fs, f)}
Globs == {<<"a">>, <<"*">>, <<"?">>, <<"a", "*">>, <<"*", "b">>}
Patterns ==
  {FilenamePattern(abs, cs) :
     abs \in BOOLEAN,
     cs \in {<<>>} \cup {<<c>> : c \in Globs} \cup {<<c, d>> : c \in Globs, d \in Globs}}
Directories == {<<>>, <<<<"a">>>>}

GlobInit ==
  /\ filesystem \in FileSystems
  /\ pattern \in Patterns
  /\ current_directory \in Directories
  /\ listed = NotListed
  /\ expanded = <<>>
  /\ shell = InitialShell
  /\ frames = <<>>
  /\ flow_pc = "run"
  /\ called = NoCall
  /\ session = NotStarted
  /\ ExtraIdle
  /\ program = <<>>
  /\ procs = << >>
  /\ pipes = {}
  /\ ran = {}
  /\ expanded_word = <<>>
  /\ ifs = None
  /\ result = NotSplit

\* The call of list_files.
ListFiles ==
  /\ ~listed.returned
  /\ \E order \in DirOrders :
       listed' = [returned |-> TRUE,
                  files |-> list_files(filesystem, order, pattern, current_directory)]
  /\ UNCHANGED <<xvars, mvars, wvars, cvars, program, procs, pipes, ran,
                 filesystem, pattern, current_directory, expanded>>

\* A run of expand_word on the field.
ExpandField ==
  /\ Len(expanded) < MaxRuns
  /\ \E order \in DirOrders :
       expanded' = Append(expanded,
                          expand_field(filesystem, order, pattern, current_directory))
  /\ UNCHANGED <<xvars, mvars, wvars, cvars, program, procs, pipes, ran,
                 filesystem, pattern, current_directory, listed>>

GlobNext ==
  \/ ListFiles
  \/ ExpandField

GlobSpec == GlobInit /\ [][GlobNext]_vars

\* ---------------------------------------------- break, continue, return
I32Max == 2147483647
I32Min == -I32Max - 1

IsDigit(c) == c \in {"0", "1", "2", "3", "4", "5", "6", "7", "8", "9"}
DigitValue(c) ==
  CASE c = "0" -> 0 [] c = "1" -> 1 [] c = "2" -> 2 [] c = "3" -> 3
    [] c = "4" -> 4 [] c = "5" -> 5 [] c = "6" -> 6 [] c = "7" -> 7
    [] c = "8" -> 8 [] c = "9" -> 9

ParseOk(n) == [ok |-> TRUE, value |-> n]
ParseErr == [ok |-> FALSE, value |-> 0]

\* The digits from the i-th on, added to value; a number that does not fit
\* an i32 is an error.
RECURSIVE ParseDigits(_, _, _, _)
ParseDigits(text, i, value, negative) ==
  IF i > Len(text) THEN ParseOk(value)
  ELSE IF ~IsDigit(text[i]) THEN ParseErr
  ELSE LET d == DigitValue(text[i])
       IN IF negative
          THEN IF value < I32Min \div 10 + 1 \/ value * 10 < I32Min + d
               THEN ParseErr
               ELSE ParseDigits(text, i + 1, value * 10 - d, negative)
          ELSE IF value > I32Max \div 10 \/ value * 10 > I32Max - d
               THEN ParseErr
               ELSE ParseDigits(text, i + 1, value * 10 + d, negative)

\* str::parse::<i32>: an optional sign and at least one digit.
parse_i32(text) ==
  IF text = <<>> THEN ParseErr
  ELSE IF text[1] \in {"+", "-"}
  THEN IF Len(text) = 1 THEN ParseErr
       ELSE ParseDigits(text, 2, 0, text[1] = "-")
  ELSE ParseDigits(text, 1, 0, FALSE)

\* SpecialBuiltinResult, with the shell the builtin leaves.
\* An error message is the sequence of the pieces format! joins: the name
\* before the colon, the colon and the space, and the rest.
BuiltinOk(status, sh) ==
  [ok |-> TRUE, status |-> status, shell |-> sh, message |-> <<>>]
BuiltinErr(message, sh) ==
  [ok |-> FALSE, status |-> 0, shell |-> sh, message |-> message]

ControlFlowState(tag, n) ==
  IF tag = "Break" THEN ControlFlowBreak(n) ELSE ControlFlowContinue(n)

\* loop_control_flow with the number of levels taken as asked for.
loop_control_flow_NoClamp(args, sh, name, tag) ==
  IF sh.loop_depth = 0
  THEN BuiltinErr(<<name, ": ", "'", name, "' can only be used inside ",
                    "'for', 'while' and 'until' loops">>, sh)
  ELSE IF Len(args) > 1 THEN BuiltinErr(<<name, ": ", "too many arguments">>, sh)
  ELSE LET parsed == IF Len(args) >= 1 THEN parse_i32(args[1]) ELSE ParseOk(1)
       IN IF ~parsed.ok
          THEN BuiltinErr(<<name, ": ", "expected numeric argument">>, sh)
          ELSE IF parsed.value < 1
          THEN BuiltinErr(<<name, ": ", "argument has to be bigger than 0">>,
                          sh)
          ELSE BuiltinOk(0, [sh EXCEPT !.control_flow_state =
                                         ControlFlowState(tag, parsed.value)])

\* loop_control_flow(args, shell, name, state)
loop_control_flow(args, sh, name, tag) ==
  IF sh.loop_depth = 0
  THEN BuiltinErr(<<name, ": ", "'", name, "' can only be used inside ",
                    "'for', 'while' and 'until' loops">>, sh)
  ELSE IF Len(args) > 1 THEN BuiltinErr(<<name, ": ", "too many arguments">>, sh)
  ELSE LET parsed == IF Len(args) >= 1 THEN parse_i32(args[1]) ELSE ParseOk(1)
       IN IF ~parsed.ok
          THEN BuiltinErr(<<name, ": ", "expected numeric argument">>, sh)
          ELSE IF parsed.value < 1
          THEN BuiltinErr(<<name, ": ", "argument has to be bigger than 0">>,
                          sh)
          ELSE BuiltinOk(0, [sh EXCEPT !.control_flow_state =
                                         ControlFlowState(tag, Min({sh.loop_depth,
                                                                    parsed.value}))])

\* Break::exec and Continue::exec
Break_exec(args, sh) == loop_control_flow(args, sh, "break", "Break")
Continue_exec(args, sh) == loop_control_flow(args, sh, "break", "Continue")

\* Return::exec with the state set before the context is looked at.
Return_exec_Anywhere(args, sh) ==
  IF Len(args) > 1
  THEN BuiltinErr(<<"return", ": ", "too many arguments">>, sh)
  ELSE LET parsed == IF Len(args) >= 1 THEN parse_i32(args[1]) ELSE ParseOk(0)
       IN IF ~parsed.ok
          THEN BuiltinErr(<<"return", ": ", "expected numeric argument">>, sh)
          ELSE BuiltinOk(parsed.value,
                         [sh EXCEPT !.control_flow_state = ControlFlowReturn])

\* Return::exec
Return_exec(args, sh) ==
  IF sh.function_call_depth = 0 /\ sh.dot_script_depth = 0
  THEN BuiltinErr(<<"return", ": ", "'return' can only be used inside ",
                    "function or dot script">>, sh)
  ELSE IF Len(args) > 1
  THEN BuiltinErr(<<"return", ": ", "too many arguments">>, sh)
  ELSE LET parsed == IF Len(args) >= 1 THEN parse_i32(args[1]) ELSE ParseOk(0)
       IN IF ~parsed.ok
          THEN BuiltinErr(<<"return", ": ", "expected numeric argument">>, sh)
          ELSE BuiltinOk(parsed.value,
                         [sh EXCEPT !.control_flow_state = ControlFlowReturn])

\* The builtin of the given name.
Builtin_exec(name, args, sh) ==
  CASE name = "break" -> Break_exec(args, sh)
    [] name = "continue" -> Continue_exec(args, sh)
    [] name = "return" -> Return_exec(args, sh)

\* The argument lists the builtins are called with.
ArgTexts ==
  {<<"x">>, <<"0">>, <<"1">>, <<"2">>, <<"3">>, <<"-", "1">>, <<"+", "2">>,
   <<"2", "1", "4", "7", "4", "8", "3", "6", "4", "7">>,
   <<"2", "1", "4", "7", "4", "8", "3", "6", "4", "8">>}
ArgLists ==
  {<<>>} \cup {<<t>> : t \in ArgTexts} \cup {<<<<"1">>, <<"1">>>>, <<<<"2">>, <<"x">>>>}

\* A loop with iterations left to run, a function call, a dot script.
LoopFrame(left) == [kind |-> "loop", left |-> left]
FunctionFrame == [kind |-> "function", left |-> 0]
DotFrame == [kind |-> "dot", left |-> 0]

Pop(fs) == SubSeq(fs, 1, Len(fs) - 1)
Top(fs) == fs[Len(fs)]

\* The shell when the innermost construct has been left.
LeaveFrame(sh, frame) ==
  CASE frame.kind = "loop" -> [sh EXCEPT !.loop_depth = @ - 1]
    [] frame.kind = "function" -> [sh EXCEPT !.function_call_depth = @ - 1]
    [] frame.kind = "dot" -> [sh EXCEPT !.dot_script_depth = @ - 1]

\* What a loop does with Break(n) left by its body, every level consumed at
\* once.
LoopHandlesBreak_ConsumeAll(sh, fs) ==
  [shell |-> [LeaveFrame(sh, Top(fs)) EXCEPT !.control_flow_state = ControlFlowNone],
   frames |-> Pop(fs)]

\* What a loop does with Break(n) left by its body: it stops, and passes
\* Break(n - 1) on when n > 1.
LoopHandlesBreak(sh, fs) ==
  [shell |-> [LeaveFrame(sh, Top(fs)) EXCEPT
                !.control_flow_state =
                   IF sh.control_flow_state.n > 1
                   THEN ControlFlowBreak(sh.control_flow_state.n - 1)
                   ELSE ControlFlowNone],
   frames |-> Pop(fs)]

\* The loop goes on with its next iteration, or ends when none is left.
NextIteration(sh, fs) ==
  IF Top(fs).left > 1
  THEN [shell |-> sh,
        frames |-> [fs EXCEPT ![Len(fs)] = LoopFrame(Top(fs).left - 1)]]
  ELSE [shell |-> LeaveFrame(sh, Top(fs)), frames |-> Pop(fs)]

\* What a loop does with Continue(n) left by its body, the loop ended even
\* for n = 1.
LoopHandlesContinue_Stop(sh, fs) ==
  [shell |-> [LeaveFrame(sh, Top(fs)) EXCEPT
                !.control_flow_state =
                   IF sh.control_flow_state.n > 1
                   THEN ControlFlowContinue(sh.control_flow_state.n - 1)
                   ELSE ControlFlowNone],
   frames |-> Pop(fs)]

\* What a loop does with Continue(n) left by its body: for n = 1 it goes on
\* with the next iteration; for n > 1 it stops and passes Continue(n - 1) on.
LoopHandlesContinue(sh, fs) ==
  IF sh.control_flow_state.n > 1
  THEN [shell |-> [LeaveFrame(sh, Top(fs)) EXCEPT
                     !.control_flow_state =
                        ControlFlowContinue(sh.control_flow_state.n - 1)],
        frames |-> Pop(fs)]
  ELSE NextIteration([sh EXCEPT !.control_flow_state = ControlFlowNone], fs)

\* What a loop does with Return left by its body, the state consumed.
LoopHandlesReturn_Consume(sh, fs) ==
  [shell |-> [LeaveFrame(sh, Top(fs)) EXCEPT !.control_flow_state = ControlFlowNone],
   frames |-> Pop(fs)]

\* What a loop does with Return left by its body: it stops and leaves the
\* state as it is.
LoopHandlesReturn(sh, fs) ==
  [shell |-> LeaveFrame(sh, Top(fs)), frames |-> Pop(fs)]

\* The end of a function call: whatever state the body left is reset.
FunctionBoundary(sh, fs) ==
  [shell |-> [LeaveFrame(sh, Top(fs)) EXCEPT !.control_flow_state = ControlFlowNone],
   frames |-> Pop(fs)]

FlowInit ==
  /\ shell = InitialShell
  /\ frames = <<>>
  /\ flow_pc = "run"
  /\ called = NoCall
  /\ session = NotStarted
  /\ ExtraIdle
  /\ program = <<>>
  /\ procs = << >>
  /\ pipes = {}
  /\ ran = {}
  /\ expanded_word = <<>>
  /\ ifs = None
  /\ result = NotSplit
  /\ filesystem = {}
  /\ pattern = FilenamePattern(FALSE, <<>>)
  /\ current_directory = <<>>
  /\ listed = NotListed
  /\ expanded = <<>>

FlowUnchanged ==
  UNCHANGED <<xvars, mvars, wvars, gvars, program, procs, pipes, ran>>

\* A loop is entered: `for`, `while` or `until` with some iterations to run.
EnterLoop ==
  /\ flow_pc = "run"
  /\ Len(frames) < MaxNest
  /\ \E left \in 1..MaxIter :
       frames' = Append(frames, LoopFrame(left))
  /\ shell' = [shell EXCEPT !.loop_depth = @ + 1]
  /\ called' = NoCall
  /\ UNCHANGED flow_pc
  /\ FlowUnchanged

\* A function is called.
CallFunction ==
  /\ flow_pc = "run"
  /\ Len(frames) < MaxNest
  /\ frames' = Append(frames, FunctionFrame)
  /\ shell' = [shell EXCEPT !.function_call_depth = @ + 1]
  /\ called' = NoCall
  /\ UNCHANGED flow_pc
  /\ FlowUnchanged

\* A dot script is started.
DotScript ==
  /\ flow_pc = "run"
  /\ Len(frames) < MaxNest
  /\ frames' = Append(frames, DotFrame)
  /\ shell' = [shell EXCEPT !.dot_script_depth = @ + 1]
  /\ called' = NoCall
  /\ UNCHANGED flow_pc
  /\ FlowUnchanged

\* break, continue or return is executed as the next command of the
\* innermost body.
CallBuiltin ==
  /\ flow_pc = "run"
  /\ \E name \in {"break", "continue", "return"}, args \in ArgLists :
       LET r == Builtin_exec(name, args, shell)
       IN /\ shell' = r.shell
          /\ called' = [name |-> name, args |-> args, ok |-> r.ok,
                        message |-> r.message,
                        status |-> r.status, shell |-> shell, after |-> r.shell,
                        frames |-> frames]
          /\ flow_pc' = IF r.shell.control_flow_state = ControlFlowNone
                        THEN "run" ELSE "unwind"
  /\ UNCHANGED frames
  /\ FlowUnchanged

\* The innermost body has run its last command with no state set: a loop
\* goes on with its next iteration or ends, a function or a dot script
\* returns.
EndBody ==
  /\ flow_pc = "run"
  /\ frames # <<>>
  /\ LET after == IF Top(frames).kind = "loop"
                  THEN NextIteration(shell, frames)
                  ELSE [shell |-> LeaveFrame(shell, Top(frames)), frames |-> Pop(frames)]
     IN shell' = after.shell /\ frames' = after.frames
  /\ called' = NoCall
  /\ UNCHANGED flow_pc
  /\ FlowUnchanged

\* The innermost loop inspects the state its body left.
LoopInspects ==
  /\ flow_pc = "unwind"
  /\ frames # <<>>
  /\ Top(frames).kind = "loop"
  /\ LET state == shell.control_flow_state
         after == CASE state.tag = "Break" -> LoopHandlesBreak(shell, frames)
                    [] state.tag = "Continue" -> LoopHandlesContinue(shell, frames)
                    [] state.tag = "Return" -> LoopHandlesReturn(shell, frames)
     IN /\ shell' = after.shell
        /\ frames' = after.frames
        /\ flow_pc' = IF after.shell.control_flow_state = ControlFlowNone
                      THEN "run" ELSE "unwind"
  /\ UNCHANGED called
  /\ FlowUnchanged

\* A function call returns with a state set by its body.
FunctionReturns ==
  /\ flow_pc = "unwind"
  /\ frames # <<>>
  /\ Top(frames).kind = "function"
  /\ LET after == FunctionBoundary(shell, frames)
     IN shell' = after.shell /\ frames' = after.frames
  /\ flow_pc' = "run"
  /\ UNCHANGED called
  /\ FlowUnchanged

\* A dot script ends with a state set by its commands: Return is consumed;
\* for Break and Continue no rule is stated, so the state is either reset
\* or passed on to the loops around the dot command.
DotScriptEnds ==
  /\ flow_pc = "unwind"
  /\ frames # <<>>
  /\ Top(frames).kind = "dot"
  /\ \E reset \in IF shell.control_flow_state = ControlFlowReturn
                  THEN {TRUE} ELSE BOOLEAN :
       /\ shell' = [LeaveFrame(shell, Top(frames)) EXCEPT
                      !.control_flow_state = IF reset THEN ControlFlowNone ELSE @]
       /\ flow_pc' = IF reset \/ Len(frames) = 1 THEN "run" ELSE "unwind"
  /\ frames' = Pop(frames)
  /\ UNCHANGED called
  /\ FlowUnchanged

FlowNext ==
  \/ EnterLoop
  \/ CallFunction
  \/ DotScript
  \/ CallBuiltin
  \/ EndBody
  \/ LoopInspects
  \/ FunctionReturns
  \/ DotScriptEnds

FlowSpec == FlowInit /\ [][FlowNext]_vars

\* -------------------------------------------------------------------- main
\* cli::ExecutionMode.
ExecutionModes ==
  {"Interactive", "ReadCommandsFromStdin", "ReadCommandsFromString",
   "ReadFromFile"}

\* What Shell::execute_program returns for a text: Ok, or a syntax error
\* with could_be_resolved_with_more_input set or not set.
ParseResults == {"Ok", "ErrMoreInput", "ErrSyntax"}

\* The statuses the last pipeline of an executed text may leave.
PipelineStatuses == {0, 1}

\* std::process::exit(code), called at line `at` of main.rs.
ProcessExit(s, code, at) ==
  [s EXCEPT !.pc = "exited",
            !.term = [kind |-> "exit", code |-> code, at |-> at]]

\* Shell::execute_program(text): a text that parses is executed and leaves
\* the status of its last pipeline; a syntax error executes nothing.
execute_program(s, parse_result, status) ==
  [s EXCEPT !.parsed = parse_result,
            !.last_pipeline_exit_status =
               IF parse_result = "Ok" THEN status ELSE @]

eprint(s, text) == [s EXCEPT !.stderr = Append(@, text)]

\* execute_string: a syntax error of either kind is reported and ends the
\* process with 2.
execute_string(s, parse_result, status) ==
  LET s1 == execute_program(s, parse_result, status)
  IN IF parse_result = "Ok" THEN s1
     ELSE ProcessExit(eprint(s1, "syntax error"), 2, 60)

\* The last line of main, reached when the match has returned.
MainReturns(s) ==
  IF s.pc = "exited" THEN s
  ELSE ProcessExit(s, s.last_pipeline_exit_status, 135)

\* read_line(&mut buffer) has appended one more line to the buffer.
read_line(s) == [s EXCEPT !.lines = @ + 1, !.buffer = @ + 1]

\* One turn of the loop of the Interactive arm, for a line that ends with
\* a backslash or not.
InteractiveTurn(s, backslash, parse_result, status) ==
  LET s1 == read_line(s)
      s2 == execute_program(s1, parse_result, status)
  IN IF backslash THEN s1
     ELSE IF parse_result = "Ok"
     THEN eprint([s2 EXCEPT !.buffer = 0], "PS1")
     ELSE IF parse_result = "ErrSyntax"
     THEN eprint(eprint([s2 EXCEPT !.buffer = 0], "syntax error"), "PS1")
     ELSE eprint(s2, "PS2")

\* One turn of the loop of the ReadCommandsFromStdin arm.
StdinTurn(s, backslash, parse_result, status) ==
  LET s1 == read_line(s)
      s2 == execute_program(s1, parse_result, status)
  IN IF backslash THEN s1
     ELSE IF parse_result = "Ok" THEN [s2 EXCEPT !.buffer = 0]
     ELSE IF parse_result = "ErrSyntax"
     THEN ProcessExit(eprint(s2, "syntax error"), 2, 118)
     ELSE s2

MainUnchanged == UNCHANGED <<xvars, wvars, gvars, cvars, program, procs, pipes, ran>>

MainInit ==
  /\ session \in {[NotStarted EXCEPT !.execution_mode = mode, !.pc = "start"] :
                    mode \in ExecutionModes}
  /\ ExtraIdle
  /\ shell = InitialShell
  /\ frames = <<>>
  /\ flow_pc = "run"
  /\ called = NoCall
  /\ program = <<>>
  /\ procs = << >>
  /\ pipes = {}
  /\ ran = {}
  /\ expanded_word = <<>>
  /\ ifs = None
  /\ result = NotSplit
  /\ filesystem = {}
  /\ pattern = FilenamePattern(FALSE, <<>>)
  /\ current_directory = <<>>
  /\ listed = NotListed
  /\ expanded = <<>>

\* The Interactive arm up to its loop: the first prompt.
StartInteractive ==
  /\ session.pc = "start"
  /\ session.execution_mode = "Interactive"
  /\ session' = eprint([session EXCEPT !.pc = "read"], "PS1")
  /\ MainUnchanged

\* The ReadCommandsFromStdin arm up to its loop.
StartReadCommandsFromStdin ==
  /\ session.pc = "start"
  /\ session.execution_mode = "ReadCommandsFromStdin"
  /\ session' = [session EXCEPT !.pc = "read"]
  /\ MainUnchanged

InteractiveLine ==
  /\ session.pc = "read"
  /\ session.execution_mode = "Interactive"
  /\ session.lines < MaxLines
  /\ \E backslash \in BOOLEAN, parse_result \in ParseResults,
        status \in PipelineStatuses :
       session' = InteractiveTurn(session, backslash, parse_result, status)
  /\ MainUnchanged

StdinLine ==
  /\ session.pc = "read"
  /\ session.execution_mode = "ReadCommandsFromStdin"
  /\ session.lines < MaxLines
  /\ \E backslash \in BOOLEAN, parse_result \in ParseResults,
        status \in PipelineStatuses :
       session' = StdinTurn(session, backslash, parse_result, status)
  /\ MainUnchanged

\* read_line finds the end of standard input, or fails: the loop of either
\* arm ends and main returns.
EndOfInput ==
  /\ session.pc = "read"
  /\ session' = MainReturns(session)
  /\ MainUnchanged

\* The ReadCommandsFromString arm.
ExecuteCommandString ==
  /\ session.pc = "start"
  /\ session.execution_mode = "ReadCommandsFromString"
  /\ \E parse_result \in ParseResults, status \in PipelineStatuses :
       session' = MainReturns(execute_string(read_line(session),
                                             parse_result, status))
  /\ MainUnchanged

\* The ReadFromFile arm: a file that cannot be read fails the expect.
ExecuteFile ==
  /\ session.pc = "start"
  /\ session.execution_mode = "ReadFromFile"
  /\ \E readable \in BOOLEAN, parse_result \in ParseResults,
        status \in PipelineStatuses :
       session' =
         IF readable
         THEN MainReturns(execute_string(read_line(session),
                                         parse_result, status))
         ELSE [session EXCEPT !.pc = "exited",
                              !.term = [kind |-> "panic", code |-> 101,
                                        at |-> 129]]
  /\ MainUnchanged

MainNext ==
  \/ StartInteractive
  \/ StartReadCommandsFromStdin
  \/ InteractiveLine
  \/ StdinLine
  \/ EndOfInput
  \/ ExecuteCommandString
  \/ ExecuteFile

MainSpec == MainInit /\ [][MainNext]_vars

\* ------------------------------------------------- building expanded words
ExpandedWordPart_new(value, quoted, generated) ==
  IF quoted THEN QuotedLiteral(value)
  ELSE IF generated THEN GeneratedUnquotedLiteral(value)
  ELSE UnquotedLiteral(value)

\* Mutant: every call of append pushes a new part.
append_AlwaysPush(parts, value, quoted, generated) ==
  Append(parts, ExpandedWordPart_new(value, quoted, generated))

\* ExpandedWord::append: the value is pushed onto the text of the last part
\* when that part is of the kind the flags ask for, and is a new part
\* otherwise.
append(parts, value, quoted, generated) ==
  IF parts = <<>>
  THEN <<ExpandedWordPart_new(value, quoted, generated)>>
  ELSE LET dest == parts[Len(parts)]
           same ==
             \/ dest.tag = "GeneratedUnquotedLiteral" /\ generated /\ ~quoted
             \/ dest.tag = "UnquotedLiteral" /\ ~generated /\ ~quoted
             \/ dest.tag = "QuotedLiteral" /\ quoted
       IN IF same
          THEN [parts EXCEPT ![Len(parts)].lit = dest.lit \o value]
          ELSE Append(parts, ExpandedWordPart_new(value, quoted, generated))

\* ExpandedWord::end_field
end_field(parts) == Append(parts, FieldEnd)

\* The values appended, and the words normalize is called with: every word
\* of up to MaxParts + 1 parts, each with an empty or a one-letter text.
AppendValues == {<<>>, <<"a">>}
NormalizeParts ==
  {[tag |-> t, lit |-> l] : t \in Tags, l \in AppendValues} \cup {FieldEnd}
NormalizeWords == UNION {[1..n -> NormalizeParts] : n \in 0..(MaxParts + 1)}

WordUnchanged ==
  UNCHANGED <<mvars, gvars, cvars, program, procs, pipes, ran, ifs, result,
              global_shell, eval_call>>

WordInit ==
  /\ expanded_word \in NormalizeWords
  /\ appended = <<>>
  /\ normalized = NotNormalized
  /\ global_shell = NoGlobalShell
  /\ eval_call = NoEval
  /\ ifs = None
  /\ result = NotSplit
  /\ session = NotStarted
  /\ shell = InitialShell
  /\ frames = <<>>
  /\ flow_pc = "run"
  /\ called = NoCall
  /\ program = <<>>
  /\ procs = << >>
  /\ pipes = {}
  /\ ran = {}
  /\ filesystem = {}
  /\ pattern = FilenamePattern(FALSE, <<>>)
  /\ current_directory = <<>>
  /\ listed = NotListed
  /\ expanded = <<>>

\* The word was empty at first and only append and end_field have changed it.
BuiltByAppend == expanded_word = <<>> \/ appended # <<>>

\* A call of append on a word that started empty.
AppendPart ==
  /\ BuiltByAppend
  /\ Len(appended) < MaxCalls
  /\ \E value \in AppendValues, quoted \in BOOLEAN, generated \in BOOLEAN :
       /\ expanded_word' = append(expanded_word, value, quoted, generated)
       /\ appended' = Append(appended, [value |-> value, quoted |-> quoted,
                                        generated |-> generated])
  /\ normalized' = NotNormalized
  /\ WordUnchanged

\* A call of end_field on a word that started empty.
EndField ==
  /\ BuiltByAppend
  /\ Len(appended) < MaxCalls
  /\ expanded_word' = end_field(expanded_word)
  /\ appended' = Append(appended, [value |-> <<>>, quoted |-> FALSE,
                                   generated |-> FALSE])
  /\ normalized' = NotNormalized
  /\ WordUnchanged

\* A call of normalize on the word.
Normalize ==
  /\ ~normalized.returned
  /\ normalized' = [returned |-> TRUE, parts |-> normalize(expanded_word)]
  /\ UNCHANGED <<expanded_word, appended>>
  /\ WordUnchanged

WordNext ==
  \/ AppendPart
  \/ EndField
  \/ Normalize

WordSpec == WordInit /\ [][WordNext]_vars

\* ------------------------------------------------------- traps and signals
\* TrapCondition: the exit of the shell and one signal.
TrapConditions == {"Exit", "Int"}
\* TrapAction: Commands(text) or another action.
TrapActions == {"Default", "Commands"}

\* What has run in the shell, with where its interpreter stood then.
Event(kind, condition, during) ==
  [kind |-> kind, condition |-> condition, during |-> during]

\* execute_action(condition): a trap action that is Commands is handed to
\* execute_program at once, which runs it or fails to parse it; for any
\* other action nothing is done.
execute_action(gs, condition, parses) ==
  IF gs.trap_actions[condition] = "Commands"
  THEN [gs EXCEPT !.events =
          Append(@, Event(IF parses THEN "trap commands" ELSE "error parsing action",
                          condition, gs.pc))]
  ELSE gs

\* global_shell_signal_handler(signal)
global_shell_signal_handler(gs, signal, parses) ==
  execute_action([gs EXCEPT !.signals = @ + 1], signal, parses)

\* on_exit()
on_exit(gs, parses) == execute_action(gs, "Exit", parses)

SignalUnchanged ==
  UNCHANGED <<mvars, wvars, gvars, cvars, program, procs, pipes, ran,
              appended, normalized, eval_call>>

SignalInit ==
  /\ \E actions \in [TrapConditions -> TrapActions] :
       global_shell = [NoGlobalShell EXCEPT !.trap_actions = actions,
                                            !.pc = "between commands"]
  /\ eval_call = NoEval
  /\ appended = <<>>
  /\ normalized = NotNormalized
  /\ session = NotStarted
  /\ shell = InitialShell
  /\ frames = <<>>
  /\ flow_pc = "run"
  /\ called = NoCall
  /\ program = <<>>
  /\ procs = << >>
  /\ pipes = {}
  /\ ran = {}
  /\ expanded_word = <<>>
  /\ ifs = None
  /\ result = NotSplit
  /\ filesystem = {}
  /\ pattern = FilenamePattern(FALSE, <<>>)
  /\ current_directory = <<>>
  /\ listed = NotListed
  /\ expanded = <<>>

\* The interpreter starts a command: it makes the first of the command's
\* changes to the shell.
CommandBegins ==
  /\ global_shell.pc = "between commands"
  /\ global_shell.commands < MaxCommands
  /\ global_shell' =
       [global_shell EXCEPT
          !.pc = "in a command", !.commands = @ + 1,
          !.events = Append(@, Event("command begins", "", global_shell.pc))]
  /\ SignalUnchanged

\* The interpreter makes the last of the command's changes to the shell.
CommandEnds ==
  /\ global_shell.pc = "in a command"
  /\ global_shell' =
       [global_shell EXCEPT
          !.pc = "between commands",
          !.events = Append(@, Event("command ends", "", global_shell.pc))]
  /\ SignalUnchanged

\* The signal arrives, wherever the interpreter stands, and its handler
\* runs to its end.
SignalArrives ==
  /\ global_shell.pc \in {"between commands", "in a command"}
  /\ global_shell.signals < MaxSignals
  /\ \E parses \in BOOLEAN :
       global_shell' = global_shell_signal_handler(global_shell, "Int", parses)
  /\ SignalUnchanged

\* main calls exit, and the function registered with atexit runs.
ShellExits ==
  /\ global_shell.pc = "between commands"
  /\ \E parses \in BOOLEAN :
       global_shell' = [on_exit(global_shell, parses) EXCEPT !.pc = "exited"]
  /\ SignalUnchanged

SignalNext ==
  \/ CommandBegins
  \/ CommandEnds
  \/ SignalArrives
  \/ ShellExits

SignalSpec == SignalInit /\ [][SignalNext]_vars

\* --------------------------------------------------------------------- eval
\* The words eval is called with: `--`, a word that does not parse, and
\* `exec n>file` and `exec n>&-` as one word each.
OptionTerminator == [kind |-> "--", fd |-> 0, file |-> ""]
BadWord == [kind |-> "(", fd |-> 0, file |-> ""]
ExecOpen(fd, file) == [kind |-> "open", fd |-> fd, file |-> file]
ExecClose(fd) == [kind |-> "close", fd |-> fd, file |-> ""]
EvalFds == {1, 2}
EvalFiles == {"a", "b"}
EvalWords ==
  {OptionTerminator, BadWord}
  \cup {ExecOpen(fd, file) : fd \in EvalFds, file \in EvalFiles}
  \cup {ExecClose(fd) : fd \in EvalFds}
EvalArgs == UNION {[1..n -> EvalWords] : n \in 0..MaxWords}

\* OpenedFiles: the files of some of the descriptors.
OpenedFilesTables ==
  UNION {[fds -> EvalFiles] : fds \in SUBSET EvalFds}

\* skip_option_terminator: the args without a leading `--`.
skip_option_terminator(args) ==
  IF args # <<>> /\ args[1] = OptionTerminator THEN Tail(args) ELSE args

\* The table with the entry of fd taken out.
Without(table, fd) == [d \in (DOMAIN table) \ {fd} |-> table[d]]

\* The program run on the shell: `exec n>file` and `exec n>&-` change
\* shell.opened_files, any other word leaves it as it is.
RECURSIVE RunWords(_, _, _)
RunWords(sh, words, i) ==
  IF i > Len(words) THEN sh
  ELSE RunWords(
         [sh EXCEPT !.opened_files =
            IF words[i].kind = "open"
            THEN Insert(sh.opened_files, words[i].fd, words[i].file)
            ELSE IF words[i].kind = "close"
            THEN Without(sh.opened_files, words[i].fd)
            ELSE sh.opened_files],
         words, i + 1)

\* Shell::execute_program on the words joined: a text that does not parse
\* is an error and runs nothing.
execute_words(sh, words) ==
  IF \E i \in 1..Len(words) : words[i] = BadWord
  THEN [ok |-> FALSE, shell |-> sh]
  ELSE [ok |-> TRUE, shell |-> RunWords(sh, words, 1)]

\* Mutant: the tables are not swapped back after the program.
Eval_exec_NoSwapBack(args, sh, opened_files) ==
  LET words == skip_option_terminator(args)
      swapped == [sh EXCEPT !.opened_files = opened_files]
      execution_result == execute_words(swapped, words)
  IN [ok |-> execution_result.ok,
      shell |-> execution_result.shell,
      opened_files |-> sh.opened_files]

\* Eval::exec: the two swaps around execute_program, and the result.
Eval_exec(args, sh, opened_files) ==
  LET words == skip_option_terminator(args)
      swapped == [sh EXCEPT !.opened_files = opened_files]
      kept == sh.opened_files
      execution_result == execute_words(swapped, words)
  IN [ok |-> execution_result.ok,
      shell |-> [execution_result.shell EXCEPT !.opened_files = kept],
      opened_files |-> execution_result.shell.opened_files]

EvalUnchanged ==
  UNCHANGED <<mvars, wvars, gvars, cvars, program, procs, pipes, ran,
              appended, normalized, global_shell>>

EvalInit ==
  /\ \E args \in EvalArgs, table \in OpenedFilesTables,
        opened_files \in OpenedFilesTables :
       eval_call = [NoEval EXCEPT
                      !.pc = "called", !.args = args,
                      !.shell = [opened_files |-> table],
                      !.opened_files = opened_files,
                      !.before = [shell |-> [opened_files |-> table],
                                  opened_files |-> opened_files]]
  /\ appended = <<>>
  /\ normalized = NotNormalized
  /\ global_shell = NoGlobalShell
  /\ session = NotStarted
  /\ shell = InitialShell
  /\ frames = <<>>
  /\ flow_pc = "run"
  /\ called = NoCall
  /\ program = <<>>
  /\ procs = << >>
  /\ pipes = {}
  /\ ran = {}
  /\ expanded_word = <<>>
  /\ ifs = None
  /\ result = NotSplit
  /\ filesystem = {}
  /\ pattern = FilenamePattern(FALSE, <<>>)
  /\ current_directory = <<>>
  /\ listed = NotListed
  /\ expanded = <<>>

\* The call of Eval::exec runs to its return.
EvalReturns ==
  /\ eval_call.pc = "called"
  /\ LET r == Eval_exec(eval_call.args, eval_call.shell, eval_call.opened_files)
     IN eval_call' = [eval_call EXCEPT !.pc = "returned", !.ok = r.ok,
                                       !.shell = r.shell,
                                       !.opened_files = r.opened_files]
  /\ EvalUnchanged

EvalNext == EvalReturns

EvalSpec == EvalInit /\ [][EvalNext]_vars

\* ===================================================== checked properties
IsPrefix(a, b) == Len(a) <= Len(b) /\ SubSeq(b, 1, Len(a)) = a

\* The statuses interpret_pipeline has reported to process p, by place.
PipelineResults(p) ==
  {[ci |-> procs[p].ci, ei |-> procs[p].hist[i].ei,
    status |-> procs[p].hist[i].status, raw |-> procs[p].hist[i].raw] :
     i \in 1..Len(procs[p].hist)}
  \cup {[ci |-> procs[p].done.ci, ei |-> procs[p].done.hist[i].ei,
         status |-> procs[p].done.hist[i].status,
         raw |-> procs[p].done.hist[i].raw] :
          i \in 1..Len(procs[p].done.hist)}

\* The children p forked for the stages of the pipeline at (ci, ei).
StageChildren(p, ci, ei) ==
  {q \in Pids : /\ procs[q].role = "stage" /\ procs[q].parent = p
                /\ procs[q].ci = ci /\ procs[q].ei = ei}

Terminated(q) == procs[q].state \in {"zombie", "reaped"}

\* The condition on which the claims say a conjunction stops.
StopsAfter(status, op) ==
  (op = "And" /\ status # 0) \/ (op = "Or" /\ status = 0)

\* C1: a conjunction that has returned has run its pipelines in list order
\* from the first one, every pipeline before the last one run did not meet
\* the stop condition (nonzero status with And, zero with Or), the last one
\* run met it or was the last of the list, the process started no later
\* pipeline of the conjunction, and the status returned is the status of
\* the last pipeline run.
C1_ShortCircuitInOrder ==
  \A p \in Pids :
    LET d == procs[p].done
    IN d.ci # 0 =>
         LET els == program[d.ci].elements
             k == Len(d.hist)
         IN /\ k >= 1 /\ k <= Len(els)
            /\ \A i \in 1..k : d.hist[i].ei = i
            /\ \A i \in 1..(k - 1) : ~StopsAfter(d.hist[i].status, els[i].op)
            /\ (k = Len(els) \/ StopsAfter(d.hist[k].status, els[k].op))
            /\ \A e \in ran : (e.pid = p /\ e.ci = d.ci) => e.ei <= k
            /\ \A id \in pipes : (id[1] = p /\ id[2] = d.ci) => id[3] <= k
            /\ d.ret = d.hist[k].status

\* A conjunction of three elements has stopped after its second pipeline.
C1_Witness ==
  \E p \in Pids :
    /\ procs[p].done.ci # 0
    /\ Len(program[procs[p].done.ci].elements) = 3
    /\ Len(procs[p].done.hist) = 2
    /\ procs[p].done.hist[1].status # 0

HasRun(p, ci, ei, si) == [pid |-> p, ci |-> ci, ei |-> ei, si |-> si] \in ran

\* C2: when the shell has interpreted `false && echo no || echo yes`, it has
\* not run `echo no`, it has run `echo yes`, and the conjunction's status
\* is 0.
C2_FalseAndNoOrYes ==
  (program = <<ConjFalseAndNoOrYes>> /\ procs[ShellPid].done.ci = 1) =>
    /\ ~HasRun(ShellPid, 1, 2, 1)
    /\ HasRun(ShellPid, 1, 3, 1)
    /\ procs[ShellPid].done.ret = 0

\* C3: the status of a pipeline of two or more stages that is not negated
\* is the exit status of its last stage, and the parent waits for no stage
\* but the last: while it waits, the pid it waits for is the last stage's,
\* and no earlier stage is ever reaped.
C3_LastStageStatus ==
  \A p \in Pids :
    /\ \A res \in PipelineResults(p) :
         LET pl == PipelineAt(res.ci, res.ei)
             n == Len(pl.commands)
         IN (n >= 2 /\ ~pl.negate_status) =>
              \E q \in StageChildren(p, res.ci, res.ei) :
                /\ procs[q].si = n
                /\ Terminated(q)
                /\ (procs[q].term.kind \in {"exit", "panic"} =>
                      res.status = procs[q].term.code % 256)
    /\ (procs[p].pc = "wait_last" =>
          /\ procs[p].child \in StageChildren(p, procs[p].ci, procs[p].ei)
          /\ procs[procs[p].child].si = NStages(procs[p]))
    /\ ((procs[p].role = "stage" /\ procs[p].si < NStages(procs[p])) =>
          procs[p].state # "reaped")

\* `false | true` has reported 0 while its first stage, which exits with 1,
\* has terminated.
C3_Witness ==
  \E p \in Pids : \E res \in PipelineResults(p) :
    /\ PipelineAt(res.ci, res.ei) = Pipeline(<<CmdFalse, CmdTrue>>, FALSE)
    /\ res.status = 0
    /\ \E q \in StageChildren(p, res.ci, res.ei) :
         procs[q].si = 1 /\ Terminated(q) /\ procs[q].term.code = 1

\* C4: the status interpret_pipeline reports is the pipeline's own status
\* when negate_status is clear, and with negate_status set it is 1 for an
\* own status of 0 and 0 for any other, whatever the number of stages.
C4_NegateStatus ==
  \A p \in Pids : \A res \in PipelineResults(p) :
    LET pl == PipelineAt(res.ci, res.ei)
    IN /\ ~pl.negate_status => res.status = res.raw
       /\ (pl.negate_status /\ res.raw = 0) => res.status = 1
       /\ (pl.negate_status /\ res.raw # 0) => res.status = 0

\* A negated pipeline of several stages has turned a nonzero status other
\* than 1 into 0.
C4_Witness ==
  \E p \in Pids : \E res \in PipelineResults(p) :
    /\ PipelineAt(res.ci, res.ei).negate_status
    /\ Len(PipelineAt(res.ci, res.ei).commands) >= 2
    /\ res.raw > 1 /\ res.status = 0

PipesOf(p, ci, ei) == {id \in pipes : id[1] = p /\ id[2] = ci /\ id[3] = ei}

\* The places of the program that hold a pipeline of two or more stages.
MultiStagePlaces ==
  {pl \in UNION {{<<ci, ei>> : ei \in 1..Len(program[ci].elements)} :
                   ci \in 1..Len(program)} :
     Len(PipelineAt(pl[1], pl[2]).commands) >= 2}

\* Process p has made all the forks of the pipeline at (ci, ei).
ForkingDone(p, ci, ei) ==
  \/ /\ procs[p].ci = ci /\ procs[p].ei = ei
     /\ procs[p].pc \in {"parent_close_last", "wait_last"}
  \/ \E res \in PipelineResults(p) : res.ci = ci /\ res.ei = ei

\* A process that is running the command of its stage.
RunsStage(q) == procs[q].state = "running" /\ procs[q].pc \in {"command", "exec_wait"}

\* C5: for a pipeline of N >= 2 stages a process never has more than N-1
\* pipes and N stage children, one per stage, and has exactly those once it
\* has made the last fork; the pipes a stage is connected to exist when the
\* stage is forked; and a stage that runs its command has the write end of
\* its own pipe as stdout and the read end of the previous pipe as stdin.
C5_PipesBeforeForks ==
  \A p \in Pids : \A pl \in MultiStagePlaces :
    LET ci == pl[1]
        ei == pl[2]
        n == Len(PipelineAt(ci, ei).commands)
        kids == StageChildren(p, ci, ei)
    IN /\ Cardinality(PipesOf(p, ci, ei)) <= n - 1
       /\ Cardinality(kids) <= n
       /\ \A q \in kids : procs[q].si \in 1..n
       /\ \A q1 \in kids : \A q2 \in kids :
            procs[q1].si = procs[q2].si => q1 = q2
       /\ ForkingDone(p, ci, ei) =>
            (Cardinality(PipesOf(p, ci, ei)) = n - 1 /\ Cardinality(kids) = n)
       /\ \A q \in kids :
            LET i == procs[q].si
            IN /\ i < n => <<p, ci, ei, i>> \in pipes
               /\ i > 1 => <<p, ci, ei, i - 1>> \in pipes
               /\ (RunsStage(q) /\ i < n) =>
                    procs[q].fds[STDOUT_FILENO] = PipeEnd("w", <<p, ci, ei, i>>)
               /\ (RunsStage(q) /\ i > 1) =>
                    procs[q].fds[STDIN_FILENO] = PipeEnd("r", <<p, ci, ei, i - 1>>)

\* The parent of a three-stage pipeline waits while the second stage runs
\* its command between its two pipes.
C5_Witness ==
  \E p \in Pids : \E pl \in MultiStagePlaces :
    /\ Len(PipelineAt(pl[1], pl[2]).commands) = 3
    /\ procs[p].pc = "wait_last" /\ procs[p].ci = pl[1] /\ procs[p].ei = pl[2]
    /\ Cardinality(PipesOf(p, pl[1], pl[2])) = 2
    /\ \E q \in StageChildren(p, pl[1], pl[2]) :
         /\ procs[q].si = 2 /\ RunsStage(q)
         /\ procs[q].fds[STDIN_FILENO].kind = "r"
         /\ procs[q].fds[STDOUT_FILENO].kind = "w"

Holds(x, end, id) ==
  /\ procs[x].state = "running"
  /\ \E fd \in Fds : procs[x].fds[fd] = PipeEnd(end, id)

HoldsAPipe(x) ==
  /\ procs[x].state = "running"
  /\ \E fd \in Fds : procs[x].fds[fd].kind \in {"r", "w"}

\* The steps of interpret_pipeline between its first pipe and its wait.
ForkingPcs == {"pipe", "fork_stage", "parent_close", "fork_last", "parent_close_last"}

C7_AllStagesReaped ==
  \A p \in Pids : \A res \in PipelineResults(p) :
    Len(PipelineAt(res.ci, res.ei).commands) >= 2 =>
      \A q \in StageChildren(p, res.ci, res.ei) : procs[q].state = "reaped"

\* C8: a process in the child branch of interpret_pipeline never leaves it:
\* it is at one of the steps of its stage or dead, the only command it ever
\* runs is the command of its stage, and when a stage child whose command
\* returned has terminated, it has done so by exit with the status the
\* command returned.
C8_StageChildExits ==
  \A q \in Pids :
    procs[q].in_child =>
      /\ procs[q].pc \in {"stage_child", "last_child", "command", "exec_wait",
                          "exec_child", "external", "dead"}
      /\ \A e \in ran :
           e.pid = q => /\ procs[q].role = "stage"
                        /\ e.ci = procs[q].ci /\ e.ei = procs[q].ei
                        /\ e.si = procs[q].si
      /\ (procs[q].role = "stage" /\ Terminated(q)) =>
           /\ procs[q].term.kind \in {"exit", "panic"}
           /\ procs[q].term.kind = "exit" =>
                procs[q].cmd_status = <<procs[q].term.code>>
           /\ procs[q].term.kind = "panic" => procs[q].cmd_status = <<>>

\* A stage child has exited with the nonzero status of its command and its
\* parent has run the command that follows the pipeline.
C8_Witness ==
  \E q \in Pids :
    /\ procs[q].role = "stage" /\ Terminated(q)
    /\ procs[q].term.kind = "exit" /\ procs[q].term.code # 0
    /\ procs[q].cmd_status = <<procs[q].term.code>>
    /\ HasRun(procs[q].parent, procs[q].ci + 1, 1, 1)

\* C9: a child of Interpreter::exec whose execve has failed has terminated
\* with exit status 126 or 127 and has run no command.
C9_ExecFailureExits ==
  \A q \in Pids :
    procs[q].exec_failed =>
      /\ Terminated(q)
      /\ procs[q].term.kind = "exit"
      /\ procs[q].term.code \in {126, 127}
      /\ \A e \in ran : e.pid # q

\* The first word of cmd has no '/' and names no file found on the PATH of
\* process p.
NotFoundOnPath(p, cmd) ==
  /\ cmd.words # <<>>
  /\ ~Contains(cmd.words[1], "/")
  /\ \/ "PATH" \notin DOMAIN procs[p].environment
     \/ ~find_in_path(cmd.words[1], procs[p].environment["PATH"].value).some

\* C10: a process that has run a command whose word is not found on PATH
\* has not crashed, has forked no child for it, and the command's status
\* is 127 wherever it is recorded.
C10_NotFoundIs127 ==
  \A e \in ran :
    NotFoundOnPath(e.pid, CommandAt(e.ci, e.ei, e.si)) =>
      /\ procs[e.pid].term.kind # "panic"
      /\ \A q \in Pids :
           ~(procs[q].role = "exec" /\ procs[q].parent = e.pid
             /\ procs[q].ci = e.ci /\ procs[q].ei = e.ei /\ procs[q].si = e.si)
      /\ \A res \in PipelineResults(e.pid) :
           (res.ci = e.ci /\ res.ei = e.ei
            /\ Len(PipelineAt(e.ci, e.ei).commands) = 1) => res.raw = 127

\* The value the assignments of cmd give to name: that of the last one.
LastAssigned(cmd, name) ==
  cmd.assignments[CHOOSE i \in 1..Len(cmd.assignments) :
                    /\ cmd.assignments[i].name = name
                    /\ \A j \in (i + 1)..Len(cmd.assignments) :
                         cmd.assignments[j].name # name].value

AssignedNames(cmd) == {cmd.assignments[i].name : i \in 1..Len(cmd.assignments)}

\* C11: when interpret_simple_command has returned, the interpreter's
\* variables are those it had at the call if the command has a command
\* word; if it has none, the assigned variables have their (last) assigned
\* value and the other variables are as before; and the next command of the
\* same interpreter starts with the variables this one left.
C11_AssignmentScope ==
  \A p \in Pids : \A k \in 1..Len(procs[p].frames) :
    LET fr == procs[p].frames[k]
        cmd == CommandAt(fr.ci, fr.ei, fr.si)
    IN /\ cmd.words # <<>> => fr.environment = fr.before.environment
       /\ cmd.words = <<>> =>
            /\ DOMAIN fr.environment =
                 DOMAIN fr.before.environment \cup AssignedNames(cmd)
            /\ \A n \in DOMAIN fr.environment :
                 IF n \in AssignedNames(cmd)
                 THEN fr.environment[n].value = LastAssigned(cmd, n)
                 ELSE fr.environment[n] = fr.before.environment[n]
       /\ k < Len(procs[p].frames) =>
            procs[p].frames[k + 1].before.environment = fr.environment

\* `VAR=1 VAR=3 >a; VAR=2 t`: VAR is 3 before and after the second command.
C11_Witness ==
  \E p \in Pids :
    /\ Len(procs[p].frames) = 2 /\ Len(program) = 2
    /\ CommandAt(1, 1, 1) = CmdAssignRedir /\ CommandAt(2, 1, 1) = CmdAssignRun
    /\ "VAR" \notin DOMAIN procs[p].frames[1].before.environment
    /\ procs[p].frames[2].before.environment["VAR"].value = <<"3">>
    /\ procs[p].frames[2].environment["VAR"].value = <<"3">>

\* C12: when interpret_simple_command has returned, with or without a
\* command word, the interpreter's opened_files table is the one it had at
\* the call, and outside a command no command environment is left.
C12_RedirectionsDiscarded ==
  \A p \in Pids :
    /\ \A k \in 1..Len(procs[p].frames) :
         procs[p].frames[k].opened_files = procs[p].frames[k].before.opened_files
    /\ (procs[p].state = "running" /\ procs[p].pc \in {"conj", "returned"}) =>
         /\ procs[p].cmd_opened_files = << >>
         /\ procs[p].opened_files = << >>

\* `VAR=1 VAR=3 >a; t >a >>b 2>c` has returned from both commands.
C12_Witness ==
  \E p \in Pids :
    /\ Len(procs[p].frames) = 2 /\ Len(program) = 2
    /\ CommandAt(1, 1, 1) = CmdAssignRedir /\ CommandAt(2, 1, 1) = CmdRedirRun
    /\ procs[p].pc = "returned"

\* C13: the command of a one-command pipeline is run by the process that
\* called interpret_pipeline: no process forks a stage child or makes a
\* pipe for that place, and the variables a bare assignment sets there are
\* set when the next command of that process starts.
C13_SingleCommandInProcess ==
  \A e \in ran :
    Len(PipelineAt(e.ci, e.ei).commands) = 1 =>
      /\ \A p \in Pids : StageChildren(p, e.ci, e.ei) = {}
      /\ \A p \in Pids : PipesOf(p, e.ci, e.ei) = {}
      /\ \A k \in 1..Len(procs[e.pid].frames) :
           LET fr == procs[e.pid].frames[k]
               cmd == CommandAt(e.ci, e.ei, e.si)
           IN (fr.ci = e.ci /\ fr.ei = e.ei /\ cmd.words = <<>>
               /\ k < Len(procs[e.pid].frames)) =>
                \A n \in AssignedNames(cmd) :
                  /\ n \in DOMAIN procs[e.pid].frames[k + 1].before.environment
                  /\ procs[e.pid].frames[k + 1].before.environment[n].value
                       = LastAssigned(cmd, n)

\* `VAR=1; VAR=2 t`: the shell has run both commands itself and VAR was 1
\* when the second one started.
C13_Witness ==
  \E p \in Pids :
    /\ procs[p].role = "shell" /\ Len(program) = 2
    /\ CommandAt(1, 1, 1) = CmdAssign /\ CommandAt(2, 1, 1) = CmdAssignRun
    /\ HasRun(p, 1, 1, 1) /\ HasRun(p, 2, 1, 1)
    /\ Len(procs[p].frames) = 2
    /\ procs[p].frames[2].before.environment["VAR"].value = <<"1">>

\* The text of s before its first '=' and the text after it.
NameOf(s) == SubSeq(s, 1, (CHOOSE i \in 1..Len(s) :
                             s[i] = "=" /\ \A j \in 1..(i - 1) : s[j] # "=") - 1)
ValueOf(s) == SubSeq(s, Len(NameOf(s)) + 2, Len(s))

\* C14: the environment of a program started by Interpreter::exec holds one
\* string name=value for each variable of the command's environment whose
\* export flag is set, and nothing else.
C14_OnlyExportedPassed ==
  \A q \in Pids :
    procs[q].image # <<>> =>
      LET ce == procs[q].cmd_environment
      IN /\ \A e \in procs[q].envp :
              /\ Contains(e, "=")
              /\ \E n \in DOMAIN ce :
                   /\ Chars(n) = NameOf(e) /\ ce[n].export
                   /\ ce[n].value = ValueOf(e)
         /\ \A n \in DOMAIN ce :
              ce[n].export =>
                \E e \in procs[q].envp :
                  Contains(e, "=") /\ NameOf(e) = Chars(n)
                  /\ ValueOf(e) = ce[n].value

\* `VAR=2 t`: the program runs with PATH=/b alone in its environment
\* although its command environment holds VAR too.
C14_Witness ==
  \E q \in Pids :
    /\ procs[q].image = PathT
    /\ DOMAIN procs[q].cmd_environment = {"PATH", "VAR"}
    /\ procs[q].envp = {<<"P", "A", "T", "H", "=", "/", "b">>}

\* The descriptor a redirection is for: the one it names, else standard
\* input for the input kinds and standard output for the output kinds.
TargetOf(redir) ==
  IF redir.file_descriptor.some THEN redir.file_descriptor.value
  ELSE IF redir.kind \in {"RedirectInput", "DuplicateInput", "OpenRW"}
  THEN STDIN_FILENO ELSE STDOUT_FILENO

\* C15: in a command environment in which perform_redirections has been
\* run, each descriptor the redirection list names is mapped to the file of
\* the last redirection listed for it, and no other descriptor is mapped.
C15_LastRedirectionWins ==
  \A p \in Pids :
    (procs[p].state = "running" /\ procs[p].pc \in {"exec_wait", "exec_child"}) =>
      LET redirs == CommandAt(procs[p].ci, procs[p].ei, procs[p].si).redirections
          table == procs[p].cmd_opened_files
          targets == {TargetOf(redirs[i]) : i \in 1..Len(redirs)}
      IN /\ DOMAIN table = targets
         /\ \A d \in targets :
              LET last == CHOOSE i \in 1..Len(redirs) :
                            /\ TargetOf(redirs[i]) = d
                            /\ \A j \in (i + 1)..Len(redirs) : TargetOf(redirs[j]) # d
              IN d \in DOMAIN table /\ table[d].path = redirs[last].file

\* C16 as stated: for all input words, split_fields(word, Some("")) returns
\* the one-element list [word] with the word unchanged.
C16_EmptyIfsReturnsWord ==
  (result.returned /\ ifs = Some(<<>>)) => result.fields = <<expanded_word>>

\* C16: for every input word with at least one part,
\* split_fields(word, Some("")) returns the one-element list [word] with the
\* word unchanged; for the word without parts it returns the empty list.
C16_EmptyIfsReturnsWordWithParts ==
  (result.returned /\ ifs = Some(<<>>)) =>
    result.fields = IF expanded_word = <<>> THEN <<>> ELSE <<expanded_word>>

\* Generated `a:b:c` with an empty IFS comes back as it was, still generated.
C16_Witness ==
  /\ result.returned
  /\ ifs = Some(<<>>)
  /\ expanded_word = <<GeneratedUnquotedLiteral(<<"a", ":", "b", ":", "c">>)>>
  /\ result.fields = <<expanded_word>>

\* The word has no part made by an expansion.
NoGeneratedPart(word) ==
  \A i \in 1..Len(word) : word[i].tag # "GeneratedUnquotedLiteral"

\* The word has a part, and each part is a quoted or an unquoted literal.
LiteralWord(word) ==
  /\ word # <<>>
  /\ \A i \in 1..Len(word) : word[i].tag \in {"QuotedLiteral", "UnquotedLiteral"}

\* C17 as stated: for every word that contains no GeneratedUnquotedLiteral
\* part and for every value of ifs, split_fields returns the one-element list
\* [word] with the word unchanged.
C17_NoGeneratedPartUnchanged ==
  (result.returned /\ NoGeneratedPart(expanded_word)) =>
    result.fields = <<expanded_word>>

\* C17: for every word that has at least one part and only QuotedLiteral and
\* UnquotedLiteral parts, and for every value of ifs (unset, empty or any set
\* of characters), split_fields returns a one-element list; its word is the
\* input word up to the joining of adjacent parts of the same kind, and the
\* input word itself when no two adjacent parts are of the same kind, even
\* when the literal text contains IFS characters.
C17_LiteralWordUnchanged ==
  (result.returned /\ LiteralWord(expanded_word)) =>
    /\ Len(result.fields) = 1
    /\ normalize(result.fields[1]) = normalize(expanded_word)
    /\ normalize(expanded_word) = expanded_word => result.fields[1] = expanded_word

\* The unquoted literal `a:b:c` with IFS=":" stays one field.
C17_Witness ==
  /\ result.returned
  /\ ifs = Some(<<":">>)
  /\ expanded_word = <<UnquotedLiteral(<<"a", ":", "b", ":", "c">>)>>
  /\ result.fields = <<expanded_word>>

\* The word is one generated part.
GeneratedText(word) == Len(word) = 1 /\ word[1].tag = "GeneratedUnquotedLiteral"

\* The characters of IFS: those of its value, or space, tab and newline when
\* it is unset.
IfsChars(ifs_option) == IF ifs_option.some THEN ifs_option.value ELSE DefaultIfs

\* The pieces of the text between its characters that are in seps, the empty
\* pieces left out: what remains when every maximal run of separators is one
\* split point and the runs at both ends give no field.
RECURSIVE PiecesFrom(_, _, _, _, _)
PiecesFrom(text, pos, seps, piece, pieces) ==
  LET flushed == IF piece = <<>> THEN pieces ELSE Append(pieces, piece)
  IN IF pos > Len(text) THEN flushed
     ELSE IF Contains(seps, text[pos])
     THEN PiecesFrom(text, pos + 1, seps, <<>>, flushed)
     ELSE PiecesFrom(text, pos + 1, seps, Append(piece, text[pos]), pieces)

Pieces(text, seps) == PiecesFrom(text, 1, seps, <<>>, <<>>)

\* The texts of the fields, in order.
FieldTexts(fields) == [i \in 1..Len(fields) |-> to_string(fields[i])]

\* IFS is unset or holds whitespace characters only, at least one.
WhitespaceIfs(ifs_option) ==
  /\ IfsChars(ifs_option) # <<>>
  /\ \A i \in 1..Len(IfsChars(ifs_option)) : is_ifs_whitespace(IfsChars(ifs_option)[i])

\* C18: on generated text, with whitespace characters in IFS, every maximal
\* run of IFS characters is a single split point, the runs at the start and
\* the end of the text give no field and no field is empty, so the fields
\* are the non-empty pieces of the text between its IFS characters; with ifs
\* unset the result is that for IFS equal to space, tab and newline.
C18_WhitespaceRunsCollapse ==
  (result.returned /\ GeneratedText(expanded_word) /\ WhitespaceIfs(ifs)) =>
    /\ FieldTexts(result.fields) = Pieces(expanded_word[1].lit, IfsChars(ifs))
    /\ ifs = None => result.fields = split_fields(expanded_word, Some(DefaultIfs))

\* IFS is set and holds non-whitespace characters only, at least one.
NonWhitespaceIfs(ifs_option) ==
  /\ ifs_option.some
  /\ ifs_option.value # <<>>
  /\ \A i \in 1..Len(ifs_option.value) : ~is_ifs_whitespace(ifs_option.value[i])

\* The pieces of the text between its characters that are in seps, one
\* split point for each of them, the empty pieces kept.
RECURSIVE EveryPieceFrom(_, _, _, _, _)
EveryPieceFrom(text, pos, seps, piece, pieces) ==
  IF pos > Len(text) THEN Append(pieces, piece)
  ELSE IF Contains(seps, text[pos])
  THEN EveryPieceFrom(text, pos + 1, seps, <<>>, Append(pieces, piece))
  ELSE EveryPieceFrom(text, pos + 1, seps, Append(piece, text[pos]), pieces)

EveryPiece(text, seps) == EveryPieceFrom(text, 1, seps, <<>>, <<>>)

\* C19: on generated text that neither begins nor ends with a separator,
\* with non-whitespace characters in IFS, each IFS character is exactly one
\* split point even when it is next to another one, so the empty field
\* between two adjacent separators is kept: `a::b` with IFS=":" yields the
\* three fields `a`, the empty field and `b`.
C19_AdjacentSeparatorsKeepEmptyField ==
  (/\ result.returned
   /\ GeneratedText(expanded_word)
   /\ NonWhitespaceIfs(ifs)
   /\ expanded_word[1].lit # <<>>
   /\ ~Contains(ifs.value, expanded_word[1].lit[1])
   /\ ~Contains(ifs.value, expanded_word[1].lit[Len(expanded_word[1].lit)])) =>
    FieldTexts(result.fields) = EveryPiece(expanded_word[1].lit, ifs.value)

\* The text ends with a non-whitespace character of IFS.
EndsWithSeparator(text, ifs_option) ==
  /\ text # <<>>
  /\ Contains(IfsChars(ifs_option), text[Len(text)])
  /\ ~is_ifs_whitespace(text[Len(text)])

\* C20: a non-whitespace IFS character that ends the generated text ends the
\* last field and adds no empty field after it: the fields are those of the
\* text without that character and the last of them is not empty; generated
\* `a:b:c:` with IFS=":" yields exactly the fields a, b, c.
C20_TrailingSeparatorNoEmptyField ==
  (/\ result.returned
   /\ GeneratedText(expanded_word)
   /\ EndsWithSeparator(expanded_word[1].lit, ifs)) =>
    LET text == expanded_word[1].lit
        before == SubSeq(text, 1, Len(text) - 1)
    IN /\ result.fields = split_fields(<<GeneratedUnquotedLiteral(before)>>, ifs)
       /\ result.fields # <<>> =>
            to_string(result.fields[Len(result.fields)]) # <<>>
       /\ (text = <<"a", ":", "b", ":", "c", ":">> /\ ifs = Some(<<":">>)) =>
            FieldTexts(result.fields) = <<<<"a">>, <<"b">>, <<"c">>>>

\* Generated `a:b:c:` with IFS=":" has been split into a, b and c.
C20_Witness ==
  /\ result.returned
  /\ ifs = Some(<<":">>)
  /\ expanded_word = <<GeneratedUnquotedLiteral(<<"a", ":", "b", ":", "c", ":">>)>>
  /\ Len(result.fields) = 3

\* C21: for every value of ifs, the empty string included, each FieldEnd of
\* the input word that stands between other parts ends a field: the fields
\* are those of the parts up to the FieldEnd followed by those of the parts
\* after it, so no field holds parts of both sides.
C21_FieldEndEndsField ==
  result.returned =>
    \A k \in 2..(Len(expanded_word) - 1) :
      expanded_word[k].tag = "FieldEnd" =>
        result.fields =
          split_fields(SubSeq(expanded_word, 1, k), ifs)
          \o split_fields(SubSeq(expanded_word, k + 1, Len(expanded_word)), ifs)

\* The files and directories of the filesystem, each as its path from /.
Entries(fs) ==
  fs \cup UNION {{SubSeq(f, 1, n) : n \in 1..(Len(f) - 1)} : f \in fs}

\* The paths the pattern stands for: those of the entries below the
\* starting directory (/ for an absolute pattern) that have as many
\* components as the pattern, each matching the component at its place.
MatchingPaths(fs, pat, directory) ==
  LET start == IF pat.absolute THEN <<>> ELSE directory
      below == {SubSeq(e, Len(start) + 1, Len(e)) :
                  e \in {x \in Entries(fs) : /\ Len(start) < Len(x)
                                             /\ SubSeq(x, 1, Len(start)) = start}}
  IN {into_os_string(PathBuf(pat.absolute, rel)) :
        rel \in {r \in below :
                   /\ Len(r) = Len(pat.components)
                   /\ \A i \in 1..Len(r) : MatchGlob(pat.components[i], r[i])}}

\* C22: list_files returns, in ascending order and without duplicates,
\* exactly the paths of the filesystem that have as many components as the
\* pattern and match it component by component; an absolute pattern is
\* matched from / and yields absolute paths, any other from the current
\* directory and yields paths relative to it.
C22_ListFilesSortedMatches ==
  listed.returned =>
    /\ \A i, j \in 1..Len(listed.files) :
         i < j => LexLess(listed.files[i], listed.files[j])
    /\ {listed.files[i] : i \in 1..Len(listed.files)}
         = MatchingPaths(filesystem, pattern, current_directory)

\* `/a*/?` on a filesystem with /a/a and /ab/a has listed both, in order.
C22_Witness ==
  /\ listed.returned
  /\ pattern = FilenamePattern(TRUE, <<<<"a", "*">>, <<"?">>>>)
  /\ listed.files = <<<<"/", "a", "/", "a">>, <<"/", "a", "b", "/", "a">>>>

\* C23: when the pattern of a field matches no entry of the filesystem,
\* list_files returns the empty list and each run of expand_word on the
\* field emits the text of the pattern as its single result, the same text
\* at every run.
C23_NoMatchKeepsPattern ==
  MatchingPaths(filesystem, pattern, current_directory) = {} =>
    /\ listed.returned => listed.files = <<>>
    /\ \A i \in 1..Len(expanded) : expanded[i] = <<PatternText(pattern)>>

\* `*b/a` has been expanded twice where nothing matches it, to `*b/a` both
\* times.
C23_Witness ==
  /\ listed.returned
  /\ listed.files = <<>>
  /\ pattern = FilenamePattern(FALSE, <<<<"*", "b">>, <<"a">>>>)
  /\ expanded = <<<<<<"*", "b", "/", "a">>>>, <<<<"*", "b", "/", "a">>>>>>

\* The number of levels the call asks for: 1 without an argument.
Asked(args) == IF args = <<>> THEN ParseOk(1) ELSE parse_i32(args[1])

\* C24: a successful `break n` or `continue n` at loop nesting depth d >= 1
\* sets the control-flow state to Break(min(n, d)) or Continue(min(n, d)),
\* n being 1 without an argument, so 1 <= level <= d; with one numeric
\* argument or none at depth d >= 1, asking for more levels than are open
\* is not an error and n < 1 is one.
C24_LevelsClamped ==
  called.name \in {"break", "continue"} =>
    LET d == called.shell.loop_depth
        n == Asked(called.args)
        state == called.after.control_flow_state
    IN /\ called.ok =>
            /\ d >= 1
            /\ state.tag = (IF called.name = "break" THEN "Break" ELSE "Continue")
            /\ state.n = Min({n.value, d})
            /\ 1 <= state.n /\ state.n <= d
       /\ (d >= 1 /\ Len(called.args) <= 1 /\ n.ok) => (called.ok <=> n.value >= 1)

\* `break 3` inside two loops has set Break(2).
C24_Witness ==
  /\ called.name = "break"
  /\ called.args = <<<<"3">>>>
  /\ called.shell.loop_depth = 2
  /\ called.ok
  /\ called.after.control_flow_state = ControlFlowBreak(2)

\* The call is made where the builtin is allowed: break and continue inside
\* a loop, return inside a function or a dot script.
GoodContext(name, sh) ==
  IF name = "return" THEN sh.function_call_depth > 0 \/ sh.dot_script_depth > 0
  ELSE sh.loop_depth > 0

\* The arguments are in error: more than one, one that is no number, or
\* for break and continue a number below 1.
ArgumentError(name, args) ==
  \/ Len(args) > 1
  \/ Len(args) = 1 /\ ~parse_i32(args[1]).ok
  \/ Len(args) = 1 /\ name # "return" /\ parse_i32(args[1]).value < 1

\* C25: break and continue change the control-flow state only when
\* loop_depth > 0, and return only when function_call_depth > 0 or
\* dot_script_depth > 0; in every other context and on every argument error
\* the builtin returns an error and leaves the state unchanged.
C25_ErrorsLeaveState ==
  called.name # "" =>
    /\ called.after.control_flow_state # called.shell.control_flow_state =>
         GoodContext(called.name, called.shell)
    /\ (~GoodContext(called.name, called.shell)
        \/ ArgumentError(called.name, called.args)) =>
         ~called.ok /\ called.after = called.shell

\* `return` inside a loop but outside any function or dot script has
\* failed and left the state None.
C25_Witness ==
  /\ called.name = "return"
  /\ called.args = <<>>
  /\ called.shell.loop_depth = 1
  /\ called.shell.function_call_depth = 0
  /\ called.shell.dot_script_depth = 0
  /\ ~called.ok
  /\ called.after.control_flow_state = ControlFlowNone

\* The n innermost of the frames are loops.
InnermostAreLoops(fs, n) ==
  /\ n <= Len(fs)
  /\ \A i \in (Len(fs) - n + 1)..Len(fs) : fs[i].kind = "loop"

\* A loop whose body left Break(n) stops; it passes Break(n - 1) on to the
\* enclosing loop for n > 1 and resets the state for n = 1.
BreakStep ==
  (/\ flow_pc = "unwind"
   /\ shell.control_flow_state.tag = "Break"
   /\ Top(frames).kind = "loop") =>
    /\ frames' = Pop(frames)
    /\ shell'.loop_depth = shell.loop_depth - 1
    /\ shell'.control_flow_state =
         IF shell.control_flow_state.n > 1
         THEN ControlFlowBreak(shell.control_flow_state.n - 1)
         ELSE ControlFlowNone
    /\ flow_pc' = IF shell.control_flow_state.n > 1 THEN "unwind" ELSE "run"

\* Once a successful break for n levels inside n or more nested loops has
\* been handled, exactly the n innermost loops have ended and the state is
\* None again.
BreakOutcome ==
  (/\ called.name = "break"
   /\ called.ok
   /\ flow_pc = "run"
   /\ InnermostAreLoops(called.frames, called.after.control_flow_state.n)) =>
    /\ frames = SubSeq(called.frames, 1,
                       Len(called.frames) - called.after.control_flow_state.n)
    /\ shell.control_flow_state = ControlFlowNone
    /\ shell.loop_depth = called.shell.loop_depth - called.after.control_flow_state.n

\* C26: when a loop body leaves Break(n), for n > 1 the loop stops, the
\* state becomes Break(n - 1) and is passed to the enclosing loop, and for
\* n = 1 the loop stops and the state is reset; hence `break 2` in a doubly
\* nested loop ends both loops and execution resumes after the outer loop
\* with the state reset, and a plain `break` ends the innermost loop only.
C26_BreakEndsLoops == [][BreakStep]_vars /\ []BreakOutcome

\* `break 2` in the inner of two loops inside a third has ended the two
\* and left the third running.
C26_Witness ==
  /\ called.name = "break"
  /\ called.args = <<<<"2">>>>
  /\ called.ok
  /\ Len(called.frames) = 3
  /\ InnermostAreLoops(called.frames, 3)
  /\ flow_pc = "run"
  /\ frames = <<called.frames[1]>>
  /\ shell.control_flow_state = ControlFlowNone

\* The frames once the loop that is innermost in fs has gone on with its
\* next iteration, or ended when none was left.
AfterIteration(fs) ==
  IF Top(fs).left > 1
  THEN [fs EXCEPT ![Len(fs)] = LoopFrame(Top(fs).left - 1)]
  ELSE Pop(fs)

\* A loop whose body left Continue(1) resets the state and goes on with its
\* next iteration; one whose body left Continue(n), n > 1, stops and passes
\* Continue(n - 1) on to the enclosing loop.
ContinueStep ==
  (/\ flow_pc = "unwind"
   /\ shell.control_flow_state.tag = "Continue"
   /\ Top(frames).kind = "loop") =>
    IF shell.control_flow_state.n > 1
    THEN /\ frames' = Pop(frames)
         /\ shell'.control_flow_state =
              ControlFlowContinue(shell.control_flow_state.n - 1)
         /\ flow_pc' = "unwind"
    ELSE /\ frames' = AfterIteration(frames)
         /\ shell'.control_flow_state = ControlFlowNone
         /\ flow_pc' = "run"

\* Once a successful continue for n levels inside n or more nested loops
\* has been handled, the n - 1 innermost loops have ended, the n-th has gone
\* on with its next iteration, the loops around it are where they were and
\* the state is None again.
ContinueOutcome ==
  (/\ called.name = "continue"
   /\ called.ok
   /\ flow_pc = "run"
   /\ InnermostAreLoops(called.frames, called.after.control_flow_state.n)) =>
    /\ frames = AfterIteration(SubSeq(called.frames, 1,
                  Len(called.frames) - called.after.control_flow_state.n + 1))
    /\ shell.control_flow_state = ControlFlowNone

\* C27: when a loop body leaves Continue(n), for n = 1 the rest of the
\* iteration is skipped, the state is reset and the same loop goes on with
\* its next iteration, and for n > 1 the loop stops, the state becomes
\* Continue(n - 1) and is passed to the enclosing loop; a `continue` in an
\* inner loop leaves the outer loop's iteration where it was.
C27_ContinueNextIteration == [][ContinueStep]_vars /\ []ContinueOutcome

\* A plain `continue` in the inner of two loops, both with two iterations
\* left, has taken the inner loop to its last iteration and left the outer
\* one alone.
C27_Witness ==
  /\ called.name = "continue"
  /\ called.args = <<>>
  /\ called.ok
  /\ called.frames = <<LoopFrame(2), LoopFrame(2)>>
  /\ flow_pc = "run"
  /\ frames = <<LoopFrame(2), LoopFrame(1)>>
  /\ shell.control_flow_state = ControlFlowNone

\* The place of the innermost function call or dot script among the frames,
\* 0 when there is none.
RECURSIVE InnermostBoundary(_)
InnermostBoundary(fs) ==
  IF fs = <<>> THEN 0
  ELSE IF Top(fs).kind \in {"function", "dot"} THEN Len(fs)
  ELSE InnermostBoundary(Pop(fs))

\* A loop whose body left Return stops and leaves the state Return; a
\* function call that returns with any state set, and a dot script that
\* ends with Return set, reset the state.
ReturnStep ==
  flow_pc = "unwind" =>
    /\ (shell.control_flow_state = ControlFlowReturn /\ Top(frames).kind = "loop") =>
         /\ frames' = Pop(frames)
         /\ shell'.control_flow_state = ControlFlowReturn
         /\ flow_pc' = "unwind"
    /\ (\/ Top(frames).kind = "function"
        \/ shell.control_flow_state = ControlFlowReturn /\ Top(frames).kind = "dot") =>
         /\ frames' = Pop(frames)
         /\ shell'.control_flow_state = ControlFlowNone
         /\ flow_pc' = "run"

\* Once a successful return has been handled, every loop inside the
\* innermost function call or dot script has ended with it and the state is
\* None again.
ReturnOutcome ==
  (called.name = "return" /\ called.ok /\ flow_pc = "run") =>
    /\ frames = SubSeq(called.frames, 1, InnermostBoundary(called.frames) - 1)
    /\ shell.control_flow_state = ControlFlowNone

\* C28: a loop never consumes or alters Return, whatever the nesting: every
\* enclosing loop stops and the state stays Return until the function or
\* dot-script boundary, where it is reset; and whichever state a function
\* body leaves, the state is reset when the function call returns.
C28_ReturnPassesLoops == [][ReturnStep]_vars /\ []ReturnOutcome

\* `return` inside two loops of a function has ended the loops and the
\* call.
C28_Witness ==
  /\ called.name = "return"
  /\ called.ok
  /\ called.frames = <<FunctionFrame, LoopFrame(2), LoopFrame(2)>>
  /\ flow_pc = "run"
  /\ frames = <<>>
  /\ shell = InitialShell

\* C30: once interpret_conjunction has returned for a conjunction, the
\* interpreter's most_recent_pipeline_status is the status it returned, and
\* a shell that has run its whole program has left with the status of the
\* last conjunction it interpreted.
C30_ConjunctionStatusRecorded ==
  \A p \in DOMAIN procs :
    (procs[p].role = "shell" /\ procs[p].done.ci # 0) =>
      /\ (procs[p].state = "running" =>
            procs[p].most_recent_pipeline_status = procs[p].done.ret)
      /\ ((Terminated(p) /\ procs[p].done.ci = Len(program)
           /\ procs[p].term.kind = "exit") =>
            procs[p].term.code = procs[p].done.ret)

\* The text main holds when it ends is one execute_program refused.
EndedOnParseError ==
  /\ session.pc = "exited"
  /\ session.term.kind = "exit"
  /\ session.parsed \in {"ErrMoreInput", "ErrSyntax"}

\* C29: a shell that is not interactive and ends on a parse error ends with
\* exit code 2; an interactive shell never ends at a parse error: after a
\* syntax error it has printed the error and the prompt, after an error
\* that more input could resolve it has printed the prompt for more input.
C29_ParseErrorExitCode ==
  /\ (session.execution_mode # "Interactive" /\ EndedOnParseError) =>
       session.term.code = 2
  /\ (session.execution_mode = "Interactive" /\ session.pc = "exited") =>
       session.term.at = 135
  /\ (session.execution_mode = "Interactive" /\ session.pc = "read"
      /\ session.parsed = "ErrSyntax" /\ session.buffer = 0) =>
       /\ Len(session.stderr) >= 2
       /\ SubSeq(session.stderr, Len(session.stderr) - 1,
                 Len(session.stderr)) = <<"syntax error", "PS1">>
  /\ (session.execution_mode = "Interactive" /\ session.pc = "read"
      /\ session.parsed = "ErrMoreInput") =>
       Last(session.stderr) = "PS2"

\* C31: the interpreter never waits for a child while it interprets a
\* conjunction whose is_async is set, and once it has gone past such a
\* conjunction most_recent_background_command_pid is the pid of a process
\* it spawned for it, which is never 0.
C31_AsyncNotWaitedFor ==
  \A p \in DOMAIN procs :
    procs[p].role = "shell" =>
      /\ ((procs[p].state = "running" /\ procs[p].ci <= Len(program)
           /\ program[procs[p].ci].is_async) =>
            procs[p].pc \notin {"exec_wait", "wait_last"})
      /\ ((procs[p].done.ci # 0 /\ program[procs[p].done.ci].is_async) =>
            procs[p].most_recent_background_command_pid # 0)

\* C32: when the child the interpreter waited for in exec was killed by
\* signal s, the status reported for the pipeline it ran in is 128 + s, and
\* a stage child that ran it leaves with 128 + s: never 0.
C32_SignalStatus ==
  \A p \in DOMAIN procs, q \in DOMAIN procs :
    (/\ procs[q].role = "exec" /\ procs[q].parent = p
     /\ procs[q].state = "reaped" /\ procs[q].term.kind = "signal") =>
      /\ \A e \in PipelineResults(p) :
           (e.ci = procs[q].ci /\ e.ei = procs[q].ei /\ ~procs[p].in_child) =>
             e.raw = 128 + procs[q].term.code
      /\ (procs[p].in_child /\ procs[p].term.kind = "exit") =>
           procs[p].term.code = 128 + procs[q].term.code

\* No two adjacent parts of the word are literals of the same kind.
NoAdjacentSameTag(parts) ==
  \A i \in 1..(Len(parts) - 1) :
    parts[i].tag = "FieldEnd" \/ parts[i].tag # parts[i + 1].tag

\* C34: a word built from the empty word by calls of append (and
\* end_field) has no two adjacent parts with the same literal tag; what
\* normalize returns for any word has none either, has the text of the word
\* it was given, and is returned unchanged by a second normalize.
C34_AppendAndNormalize ==
  /\ BuiltByAppend => NoAdjacentSameTag(expanded_word)
  /\ normalized.returned =>
       /\ NoAdjacentSameTag(normalized.parts)
       /\ to_string(normalized.parts) = to_string(expanded_word)
       /\ normalize(normalized.parts) = normalized.parts

\* Three appends, the first two quoted, have made a word of two parts, and
\* normalize has returned for it.
C34_Witness ==
  /\ Len(appended) = 3
  /\ appended[1].quoted /\ appended[2].quoted /\ ~appended[3].quoted
  /\ appended[1].value = <<"a">> /\ appended[2].value = <<"a">>
  /\ Len(expanded_word) = 2
  /\ expanded_word[1] = QuotedLiteral(<<"a", "a">>)
  /\ normalized.returned

\* C35: a variable the shell got marked for export from the environment of
\* its process is, in every interpreter and every command environment that
\* still holds it, marked for export, and is in the environment of every
\* external command started with it.
C35_ExportSurvivesAssignment ==
  \A p \in DOMAIN procs :
    \A name \in DOMAIN procs[p].initial_environment :
      procs[p].initial_environment[name].export =>
        /\ (procs[p].state = "running" /\ name \in DOMAIN procs[p].environment) =>
             procs[p].environment[name].export
        /\ (procs[p].pc = "external" /\ name \in DOMAIN procs[p].cmd_environment) =>
             EnvString(name, procs[p].cmd_environment[name].value) \in procs[p].envp

\* C38: the message of every error break, continue and return return
\* starts with the name of the builtin that was called and a colon.
C38_MessageNamesBuiltin ==
  (called.name # "" /\ ~called.ok) =>
    /\ Len(called.message) >= 2
    /\ called.message[1] = called.name
    /\ called.message[2] = ": "

\* The characters of the word in order, each with whether split_fields may
\* delete it: it stands in a generated part and is a character of IFS.
RECURSIVE MarkedChars(_, _, _)
MarkedChars(word, i, seps) ==
  IF i > Len(word) THEN <<>>
  ELSE [k \in 1..Len(word[i].lit) |->
          [c |-> word[i].lit[k],
           deletable |-> /\ word[i].tag = "GeneratedUnquotedLiteral"
                         /\ Contains(seps, word[i].lit[k])]]
       \o MarkedChars(word, i + 1, seps)

\* The text `out` from position j on is what is left of the characters from
\* position i on when some of the deletable ones are taken away.
RECURSIVE LeftAfterDeleting(_, _, _, _)
LeftAfterDeleting(chars, i, out, j) ==
  IF i > Len(chars) THEN j > Len(out)
  ELSE \/ /\ j <= Len(out)
          /\ chars[i].c = out[j]
          /\ LeftAfterDeleting(chars, i + 1, out, j + 1)
       \/ /\ chars[i].deletable
          /\ LeftAfterDeleting(chars, i + 1, out, j)

\* The texts of the fields one after the other.
RECURSIVE ConcatFields(_, _)
ConcatFields(fields, i) ==
  IF i > Len(fields) THEN <<>>
  ELSE to_string(fields[i]) \o ConcatFields(fields, i + 1)

\* C36: for every word and every ifs that is not empty, the texts of the
\* output fields joined are the text of the word with some IFS characters
\* of generated parts deleted and nothing else: a character of generated
\* text that is not in IFS is in the output.
C36_OnlyIfsCharactersRemoved ==
  (result.returned /\ IfsChars(ifs) # <<>>) =>
    LeftAfterDeleting(MarkedChars(expanded_word, 1, IfsChars(ifs)), 1,
                      ConcatFields(result.fields, 1), 1)

\* The part is a quoted or unquoted literal with text.
LiteralPart(part) ==
  part.tag \in {"QuotedLiteral", "UnquotedLiteral"} /\ part.lit # <<>>

\* The generated part has text that is no separator.
HasFieldText(part, seps) ==
  /\ part.tag = "GeneratedUnquotedLiteral"
  /\ \E k \in 1..Len(part.lit) : ~Contains(seps, part.lit[k])

\* C37: when a generated part begins with an IFS character, the literal
\* part before it is a field of its own and the fields of the generated
\* part follow; when it ends with one, the fields of the generated part come
\* first and the literal part after it is a field of its own.
C37_EdgeSeparatorSeparates ==
  (result.returned /\ IfsChars(ifs) # <<>> /\ Len(expanded_word) = 2) =>
    LET first == expanded_word[1]
        second == expanded_word[2]
        seps == IfsChars(ifs)
    IN /\ (/\ LiteralPart(first) /\ HasFieldText(second, seps)
           /\ Contains(seps, second.lit[1])) =>
            result.fields = <<<<first>>>> \o split_fields(<<second>>, ifs)
       /\ (/\ HasFieldText(first, seps) /\ LiteralPart(second)
           /\ Contains(seps, first.lit[Len(first.lit)])) =>
            result.fields = split_fields(<<first>>, ifs) \o <<<<second>>>>

\* C33: the commands of a trap action run only while the interpreter stands
\* between two commands, never while it is in the middle of one: the signal
\* handler itself runs none.
C33_TrapsOnlyBetweenCommands ==
  \A i \in 1..Len(global_shell.events) :
    global_shell.events[i].kind = "trap commands" =>
      global_shell.events[i].during = "between commands"

\* What the words do to a table when they are run one after the other.
ChangedBy(table, words) == RunWords([opened_files |-> table], words, 1).opened_files

\* C39: when eval has returned, with Ok or with the parsing error,
\* shell.opened_files is the table the shell had at the call, and the table
\* passed to eval is that table with the changes of the program, all of
\* them when the program ran and none when it did not parse.
C39_EvalSwapsTablesBack ==
  eval_call.pc = "returned" =>
    /\ eval_call.shell.opened_files = eval_call.before.shell.opened_files
    /\ eval_call.ok =>
         eval_call.opened_files =
           ChangedBy(eval_call.before.opened_files,
                     skip_option_terminator(eval_call.args))
    /\ ~eval_call.ok => eval_call.opened_files = eval_call.before.opened_files

\* eval has run `exec 1>a` with a table that had b on descriptor 1, in a
\* shell whose own table has b on descriptor 2.
C39_Witness ==
  /\ eval_call.pc = "returned"
  /\ eval_call.ok
  /\ eval_call.args = <<OptionTerminator, ExecOpen(1, "a")>>
  /\ eval_call.before.opened_files = (1 :> "b")
  /\ eval_call.before.shell.opened_files = (2 :> "b")
  /\ eval_call.opened_files = (1 :> "a")
  /\ eval_call.shell.opened_files = (2 :> "b")

====
